---- MODULE Spec2Model ----
(***************************************************************************)
(* Research Orchestration Engine of kiro-research: the LangGraph workflow  *)
(* clarify -> decompose -> research -> synthesize -> (research | END) of   *)
(* src/research_agent/graph/workflow.py, driven by run_research of         *)
(* src/main.py, with the collaborators it calls (Clarifier, Decomposer,    *)
(* agents, Critic, ConflictResolver, Synthesizer).  External services      *)
(* (LLM, Exa search, SQLite cache, Chroma index) answer nondeterministic-  *)
(* ally: every call may succeed with one of a few values or fail.          *)
(***************************************************************************)
EXTENDS Integers, Sequences, FiniteSets, TLC

VARIABLES
    pc,            \* node the graph is about to run, "check", "end" or "raised"
    hypothesis,    \* state["hypothesis"]
    claims,        \* state["claims"]
    findings,      \* state["findings"]
    report,        \* state["report"]
    iterations,    \* state["iterations"]
    vector_store,  \* module global _vector_store: "unset" or "ready"
    decision,      \* value last returned by should_continue, "none" before
    synth_outcome, \* history: how the last Synthesizer oracle call ended
    trace,         \* history: the nodes run so far, in order
    confidences,   \* history: confidence_score of the Report of every pass, in order
    decomposed,    \* history: what Decomposer.decompose returned, <<NoneObject>> before
    result,        \* outcome of run_research
    started_with,  \* history: the hypothesis the run was started with
    clarification, \* the local `result` of clarify_node: how the Clarifier call
                   \* ended, visible until the next node starts; NoneObject otherwise
    unit,          \* a component called on its own: its arguments and what it returned
    url_cache,     \* the rows of the table `cache` of the URLCache database, by url
    clock,         \* the time, in ticks since midnight (UTC) of day 0
    cache_call     \* the last call made on the URLCache and what it returned

vars == <<pc, hypothesis, claims, findings, report, iterations,
          vector_store, decision, synth_outcome, trace, confidences, decomposed,
          result, started_with, clarification, unit, url_cache, clock, cache_call>>

\* the URL cache: its table, the time, and the last call made on it
cache_vars == <<url_cache, clock, cache_call>>

(***************************************************************************)
(* Bounds of the model                                                     *)
(***************************************************************************)
\* largest number of claims the Decomposer oracle returns
MaxClaims == 2
\* largest number of external calls that go wrong in one Research pass
MaxFaults == 1

\* Python's None where a string is expected, and where an object is
None == "None"
NoneObject == [none |-> TRUE]

\* how a call of an external service ends: it raises, or it returns a value
Failed == [status |-> "error"]
Answer(value) == [status |-> "ok", value |-> value]

\* hypothesis texts a run is started with, and the text the Clarifier may refine to
HypothesisTexts == {"h0"}
RefinedTexts == {"h1"}
Contexts == {"ctx"}

\* confidence_score values the Synthesizer oracle puts in a Report (the field
\* is an unconstrained float: schemas/report.py:8)
ReportConfidences == {40, 55, 60, 90, 150}

(***************************************************************************)
(* Configuration (workflow.py)                                             *)
(***************************************************************************)
MAX_ITERATIONS == 3
MIN_CONFIDENCE_THRESHOLD == 60

(***************************************************************************)
(* Schemas                                                                 *)
(***************************************************************************)
Hypothesis(text, context) == [text |-> text, context |-> context]

\* an f-string "<prefix><text>"; the plain text has the empty prefix
Fmt(prefix, text) == [prefix |-> prefix, text |-> text]

Claim(id, text, evidence_needed, refutation_would_be, pro, contra) ==
    [id |-> id, text |-> text, evidence_needed |-> evidence_needed,
     refutation_would_be |-> refutation_would_be,
     search_queries_pro |-> pro, search_queries_contra |-> contra]

Report(hyp, verdict, confidence, summary, fs, missing, sources) ==
    [hypothesis |-> hyp, verdict |-> verdict, confidence_score |-> confidence,
     executive_summary |-> summary, findings |-> fs,
     missing_information |-> missing, sources |-> sources]

(***************************************************************************)
(* Source Reliability Scorer (tools/source_scorer.py).  A string is a      *)
(* sequence of one-character strings.                                      *)
(***************************************************************************)
DOMAIN_SCORES == <<
    <<<<"g","o","v">>, 95>>,
    <<<<"e","d","u">>, 90>>,
    <<<<"a","r","x","i","v",".","o","r","g">>, 92>>,
    <<<<"s","e","c",".","g","o","v">>, 95>>,
    <<<<"w","h","o",".","i","n","t">>, 95>>,
    <<<<"u","n",".","o","r","g">>, 95>>,
    <<<<"n","i","h",".","g","o","v">>, 95>>,
    <<<<"c","d","c",".","g","o","v">>, 95>>,
    <<<<"e","u","r","o","p","a",".","e","u">>, 93>>,
    <<<<"n","a","t","u","r","e",".","c","o","m">>, 92>>,
    <<<<"s","c","i","e","n","c","e",".","o","r","g">>, 92>>,
    <<<<"s","c","i","e","n","c","e","d","i","r","e","c","t",".","c","o","m">>, 90>>,
    <<<<"p","u","b","m","e","d",".","n","c","b","i",".","n","l","m",".","n","i","h",".","g","o","v">>, 92>>,
    <<<<"s","c","h","o","l","a","r",".","g","o","o","g","l","e",".","c","o","m">>, 85>>,
    <<<<"r","e","u","t","e","r","s",".","c","o","m">>, 88>>,
    <<<<"b","l","o","o","m","b","e","r","g",".","c","o","m">>, 87>>,
    <<<<"w","s","j",".","c","o","m">>, 85>>,
    <<<<"f","t",".","c","o","m">>, 87>>,
    <<<<"n","y","t","i","m","e","s",".","c","o","m">>, 83>>,
    <<<<"w","a","s","h","i","n","g","t","o","n","p","o","s","t",".","c","o","m">>, 82>>,
    <<<<"b","b","c",".","c","o","m">>, 84>>,
    <<<<"b","b","c",".","c","o",".","u","k">>, 84>>,
    <<<<"e","c","o","n","o","m","i","s","t",".","c","o","m">>, 86>>,
    <<<<"a","p","n","e","w","s",".","c","o","m">>, 88>>,
    <<<<"a","f","p",".","c","o","m">>, 87>>,
    <<<<"t","e","c","h","c","r","u","n","c","h",".","c","o","m">>, 72>>,
    <<<<"w","i","r","e","d",".","c","o","m">>, 73>>,
    <<<<"t","h","e","v","e","r","g","e",".","c","o","m">>, 70>>,
    <<<<"a","r","s","t","e","c","h","n","i","c","a",".","c","o","m">>, 75>>,
    <<<<"t","e","c","h","n","o","l","o","g","y","r","e","v","i","e","w",".","c","o","m">>, 78>>,
    <<<<"h","b","r",".","o","r","g">>, 80>>,
    <<<<"m","c","k","i","n","s","e","y",".","c","o","m">>, 78>>,
    <<<<"b","c","g",".","c","o","m">>, 78>>,
    <<<<"b","a","i","n",".","c","o","m">>, 78>>,
    <<<<"d","e","l","o","i","t","t","e",".","c","o","m">>, 76>>,
    <<<<"p","w","c",".","c","o","m">>, 76>>,
    <<<<"g","a","r","t","n","e","r",".","c","o","m">>, 77>>,
    <<<<"f","o","r","r","e","s","t","e","r",".","c","o","m">>, 76>>,
    <<<<"s","t","a","t","i","s","t","a",".","c","o","m">>, 75>>,
    <<<<"w","i","k","i","p","e","d","i","a",".","o","r","g">>, 60>>,
    <<<<"c","n","n",".","c","o","m">>, 68>>,
    <<<<"f","o","r","b","e","s",".","c","o","m">>, 65>>,
    <<<<"b","u","s","i","n","e","s","s","i","n","s","i","d","e","r",".","c","o","m">>, 63>>,
    <<<<"c","n","b","c",".","c","o","m">>, 70>>,
    <<<<"i","n","v","e","s","t","o","p","e","d","i","a",".","c","o","m">>, 68>>,
    <<<<"c","r","u","n","c","h","b","a","s","e",".","c","o","m">>, 70>>,
    <<<<"p","i","t","c","h","b","o","o","k",".","c","o","m">>, 72>>,
    <<<<"m","e","d","i","u","m",".","c","o","m">>, 40>>,
    <<<<"s","u","b","s","t","a","c","k",".","c","o","m">>, 50>>,
    <<<<"l","i","n","k","e","d","i","n",".","c","o","m">>, 45>>,
    <<<<"h","a","c","k","e","r","n","e","w","s",".","c","o","m">>, 45>>,
    <<<<"d","e","v",".","t","o">>, 45>>,
    <<<<"r","e","d","d","i","t",".","c","o","m">>, 25>>,
    <<<<"q","u","o","r","a",".","c","o","m">>, 30>>,
    <<<<"t","w","i","t","t","e","r",".","c","o","m">>, 20>>,
    <<<<"x",".","c","o","m">>, 20>>,
    <<<<"f","a","c","e","b","o","o","k",".","c","o","m">>, 15>>
>>

TLD_SCORES == <<
    <<<<".","g","o","v">>, 95>>,
    <<<<".","g","o","v",".","u","k">>, 93>>,
    <<<<".","g","o","v",".","a","u">>, 93>>,
    <<<<".","e","d","u">>, 90>>,
    <<<<".","e","d","u",".","a","u">>, 88>>,
    <<<<".","a","c",".","u","k">>, 88>>,
    <<<<".","o","r","g">>, 60>>,
    <<<<".","i","n","t">>, 85>>
>>

Str_www == <<"w","w","w",".">>
Str_dot == <<".">>

EndsWith(s, suffix) ==
    /\ Len(suffix) <= Len(s)
    /\ SubSeq(s, Len(s) - Len(suffix) + 1, Len(s)) = suffix

UpperToLower ==
    [c \in {"A","B","C","D","E","F","G","H","I","J","K","L","M","N","O","P","Q",
            "R","S","T","U","V","W","X","Y","Z"} |->
        CASE c = "A" -> "a" [] c = "B" -> "b" [] c = "C" -> "c" [] c = "D" -> "d"
          [] c = "E" -> "e" [] c = "F" -> "f" [] c = "G" -> "g" [] c = "H" -> "h"
          [] c = "I" -> "i" [] c = "J" -> "j" [] c = "K" -> "k" [] c = "L" -> "l"
          [] c = "M" -> "m" [] c = "N" -> "n" [] c = "O" -> "o" [] c = "P" -> "p"
          [] c = "Q" -> "q" [] c = "R" -> "r" [] c = "S" -> "s" [] c = "T" -> "t"
          [] c = "U" -> "u" [] c = "V" -> "v" [] c = "W" -> "w" [] c = "X" -> "x"
          [] c = "Y" -> "y" [] OTHER -> "z"]

\* str.lower()
Lower(s) == [i \in 1..Len(s) |-> IF s[i] \in DOMAIN UpperToLower
                                 THEN UpperToLower[s[i]] ELSE s[i]]

\* str.replace("www.", ""): every non-overlapping occurrence, left to right
RECURSIVE RemoveWww(_)
RemoveWww(s) ==
    IF Len(s) < Len(Str_www) THEN s
    ELSE IF SubSeq(s, 1, Len(Str_www)) = Str_www
         THEN RemoveWww(SubSeq(s, Len(Str_www) + 1, Len(s)))
         ELSE <<s[1]>> \o RemoveWww(Tail(s))

Str_arxiv == <<"a","r","x","i","v",".","o","r","g">>
Str_WWW_Reddit == <<"W","W","W",".","R","e","d","d","i","t",".","c","o","m">>
Str_en_wikipedia == <<"e","n",".","w","i","k","i","p","e","d","i","a",".","o","r","g">>
Str_llm == <<"l","l","m">>
Str_reddit == <<"r","e","d","d","i","t",".","c","o","m">>
Str_unknown_blog == <<"u","n","k","n","o","w","n","-","b","l","o","g",".","x","y","z">>
Str_example_org == <<"e","x","a","m","p","l","e",".","o","r","g">>
Str_data_who == <<"d","a","t","a",".","w","h","o",".","i","n","t">>
Str_pubmed == <<"p","u","b","m","e","d",".","n","c","b","i",".","n","l","m",".","n","i","h",".","g","o","v">>
Str_netflix == <<"n","e","t","f","l","i","x",".","c","o","m">>
Str_www_facebook == <<"w","w","w",".","f","a","c","e","b","o","o","k",".","c","o","m">>

\* urllib.parse.urlparse on the URLs of the model: it raises ValueError, or
\* returns the netloc
Parsed(parse, netloc) == [parse |-> parse, netloc |-> netloc]
urlparse(url) ==
    CASE url = "https://arxiv.org/abs/123" -> Parsed("ok", Str_arxiv)
      [] url = "https://WWW.Reddit.com/r/x" -> Parsed("ok", Str_WWW_Reddit)
      [] url = "https://en.wikipedia.org/wiki/X" -> Parsed("ok", Str_en_wikipedia)
      [] url = "https://llm/made-up" -> Parsed("ok", Str_llm)
      [] url = "https://reddit.com/r/x" -> Parsed("ok", Str_reddit)
      [] url = "https://unknown-blog.xyz" -> Parsed("ok", Str_unknown_blog)
      [] url = "https://example.org/page" -> Parsed("ok", Str_example_org)
      [] url = "https://data.who.int/x" -> Parsed("ok", Str_data_who)
      [] url = "https://pubmed.ncbi.nlm.nih.gov/1" -> Parsed("ok", Str_pubmed)
      [] url = "https://netflix.com/title" -> Parsed("ok", Str_netflix)
      [] url = "https://www.facebook.com/p" -> Parsed("ok", Str_www_facebook)
      [] url = "arxiv.org/abs/123" -> Parsed("ok", <<>>)
      [] url = "http://[::1" -> Parsed("ValueError", <<>>)
      [] OTHER -> Parsed("ok", <<>>)

\* parsed is the value of urlparse(url)
domain_of(parsed) ==
    IF parsed.parse = "ok" THEN RemoveWww(Lower(parsed.netloc)) ELSE <<>>

get_domain(url) == domain_of(urlparse(url))

ExactMatch(domain, known) == domain = known
SubdomainMatch(domain, known) ==
    EndsWith(domain, Str_dot \o known) \/ EndsWith(domain, known)
TldMatch(domain, tld) == EndsWith(domain, tld)

\* index of the first matching entry, in table order (0 when none matches):
\* the source's for loops return at the first match
FirstOf(hits) ==
    IF hits = {} THEN 0 ELSE CHOOSE i \in hits : \A j \in hits : i <= j
FirstExact(table, domain) ==
    FirstOf({i \in 1..Len(table) : ExactMatch(domain, table[i][1])})
FirstSubdomain(table, domain) ==
    FirstOf({i \in 1..Len(table) : SubdomainMatch(domain, table[i][1])})
FirstTld(table, domain) ==
    FirstOf({i \in 1..Len(table) : TldMatch(domain, table[i][1])})

INVALID_URL_SCORE == 30
DEFAULT_URL_SCORE == 50

\* the score of entry i of the table, or otherwise when i is 0 (no match)
ScoreAt(table, i, otherwise) == IF i # 0 THEN table[i][2] ELSE otherwise

score_domain_tld_first(domain) ==
    IF domain = <<>> THEN INVALID_URL_SCORE
    ELSE ScoreAt(DOMAIN_SCORES, FirstExact(DOMAIN_SCORES, domain),
         ScoreAt(TLD_SCORES, FirstTld(TLD_SCORES, domain),
         ScoreAt(DOMAIN_SCORES, FirstSubdomain(DOMAIN_SCORES, domain),
                 DEFAULT_URL_SCORE)))

score_domain(domain) ==
    IF domain = <<>> THEN INVALID_URL_SCORE
    ELSE ScoreAt(DOMAIN_SCORES, FirstExact(DOMAIN_SCORES, domain),
         ScoreAt(DOMAIN_SCORES, FirstSubdomain(DOMAIN_SCORES, domain),
         ScoreAt(TLD_SCORES, FirstTld(TLD_SCORES, domain),
                 DEFAULT_URL_SCORE)))

\* score_url is a pure function: it is tabulated once for the URLs of the model
ModelUrls ==
    {"https://arxiv.org/abs/123", "https://WWW.Reddit.com/r/x",
     "https://en.wikipedia.org/wiki/X", "https://llm/made-up", "http://[::1",
     "https://reddit.com/r/x", "https://unknown-blog.xyz", "https://example.org/page",
     "https://data.who.int/x", "https://pubmed.ncbi.nlm.nih.gov/1",
     "https://netflix.com/title", "https://www.facebook.com/p", "arxiv.org/abs/123"}
url_scores == [url \in ModelUrls |-> score_domain(get_domain(url))]

score_url(url) == url_scores[url]

\* SourceScorer.MODIFIERS
MODIFIERS ==
    [has_citations |-> 10, is_recent |-> 5, is_primary |-> 15, peer_reviewed |-> 12,
     conflict_of_interest |-> -20, contradicts_consensus |-> -15,
     unverified_claims |-> -10]

\* the keyword arguments of score_with_modifiers, in the order of its ifs
ModifierNames ==
    <<"has_citations", "is_recent", "is_primary", "peer_reviewed",
      "conflict_of_interest", "contradicts_consensus", "unverified_claims">>

NoFlags == [m \in DOMAIN MODIFIERS |-> FALSE]

\* only the first active modifier is applied
RECURSIVE apply_modifiers_elif(_, _, _, _)
apply_modifiers_elif(base_score, flags, modifiers, names) ==
    IF names = <<>> THEN base_score
    ELSE IF flags[Head(names)] THEN base_score + modifiers[Head(names)]
    ELSE apply_modifiers_elif(base_score, flags, modifiers, Tail(names))

\* base_score += cls.MODIFIERS[name] for every flag that is set
RECURSIVE apply_modifiers(_, _, _, _)
apply_modifiers(base_score, flags, modifiers, names) ==
    IF names = <<>> THEN base_score
    ELSE apply_modifiers(IF flags[Head(names)]
                         THEN base_score + modifiers[Head(names)]
                         ELSE base_score,
                         flags, modifiers, Tail(names))

Min(a, b) == IF a < b THEN a ELSE b
Max(a, b) == IF a > b THEN a ELSE b

CLAMP_LOW == 0
CLAMP_HIGH == 100

clamp_upper_only(score) == Min(CLAMP_HIGH, score)

\* max(0.0, min(100.0, base_score))
clamp(score) == Max(CLAMP_LOW, Min(CLAMP_HIGH, score))

\* cls is the class as the call finds it: its MODIFIERS attribute is read
\* at every call; the score tables are read the same way and never written
score_with_modifiers(cls, url, flags) ==
    clamp(apply_modifiers(score_url(url), flags, cls.MODIFIERS, ModifierNames))

SourceScorer == [MODIFIERS |-> MODIFIERS]

ScorerCall(method, url, flags) == [method |-> method, url |-> url, flags |-> flags]

\* a call that uses up the modifiers it applied
scorer_call_spending(cls, call) ==
    [cls |-> [MODIFIERS |-> [m \in DOMAIN MODIFIERS |->
                               IF call.flags[m] THEN 0 ELSE cls.MODIFIERS[m]]],
     returned |-> IF call.method = "score_url" THEN score_url(call.url)
                  ELSE score_with_modifiers(cls, call.url, call.flags)]

\* a call of a classmethod of SourceScorer: the class after it and the
\* value it returns
scorer_call(cls, call) ==
    [cls |-> cls,
     returned |-> IF call.method = "score_url" THEN score_url(call.url)
                  ELSE score_with_modifiers(cls, call.url, call.flags)]

(***************************************************************************)
(* URL cache (memory/url_cache.py)                                         *)
(***************************************************************************)
\* time is counted in ticks; the machine's local time is UTC
TICKS_PER_DAY == 2
DEFAULT_TTL_DAYS == 7

\* a timestamp as text: the date, the separator and the time of day.  Dates
\* and times are zero-padded, so they compare as text the way they compare
\* as numbers
Timestamp(date, sep, time) == [date |-> date, sep |-> sep, time |-> time]

\* datetime.isoformat(): "YYYY-MM-DDTHH:MM:SS.ffffff"
isoformat(t) == Timestamp(t \div TICKS_PER_DAY, "T", t % TICKS_PER_DAY)

\* SQLite's datetime('now'): "YYYY-MM-DD HH:MM:SS"
sqlite_datetime_now(t) == Timestamp(t \div TICKS_PER_DAY, " ", t % TICKS_PER_DAY)

\* the code points of the two separators
Ord == [c \in {" ", "T"} |-> IF c = "T" THEN 84 ELSE 32]

\* a > b for two TEXT values of SQLite: byte by byte, left to right
text_gt(a, b) ==
    \/ a.date > b.date
    \/ /\ a.date = b.date
       /\ \/ Ord[a.sep] > Ord[b.sep]
          \/ a.sep = b.sep /\ a.time > b.time

NULL == [null |-> TRUE]
NoRow == [absent |-> TRUE]
EmptyTable == [url \in {} |-> NoRow]
Row(content, expires_at, hit_count) ==
    [content |-> content, expires_at |-> expires_at, hit_count |-> hit_count]
RowOf(table, url) == IF url \in DOMAIN table THEN table[url] ELSE NoRow

\* the ttl_days argument of set: None, or a number of days
Ttl(days) == [days |-> days]
effective_ttl(ttl_days) ==
    IF ttl_days = NoneObject THEN DEFAULT_TTL_DAYS ELSE ttl_days.days

expires_at_of(days, now) ==
    IF days > 0 THEN isoformat(now + days * TICKS_PER_DAY) ELSE NULL

\* WHERE url = ? AND (expires_at IS NULL OR expires_at > datetime('now'))
selected(row, now) ==
    /\ row # NoRow
    /\ \/ row.expires_at = NULL
       \/ text_gt(row.expires_at, sqlite_datetime_now(now))

\* COALESCE((SELECT hit_count FROM cache WHERE url = ?), 0)
kept_hit_count(row) == IF row = NoRow THEN 0 ELSE row.hit_count

Upsert(table, url, row) ==
    [u \in DOMAIN table \cup {url} |-> IF u = url THEN row ELSE table[u]]

\* URLCache.set(url, content, ttl_days=ttl_days) at time now; storage is
\* "ok", or "error" when a database call raises.  The table after the call
\* and the value returned
URLCache_set(table, url, content, ttl_days, now, storage) ==
    IF storage # "ok" THEN [table |-> table, returned |-> FALSE]
    ELSE [table |-> Upsert(table, url,
                           Row(content, expires_at_of(effective_ttl(ttl_days), now),
                               kept_hit_count(RowOf(table, url)))),
          returned |-> TRUE]

\* URLCache.get(url): storage is "ok", "error" (the SELECT raises) or
\* "update_error" (the UPDATE of hit_count or its commit raises)
URLCache_get(table, url, now, storage) ==
    IF storage = "error" THEN [table |-> table, returned |-> NoneObject]
    ELSE IF ~selected(RowOf(table, url), now)
    THEN [table |-> table, returned |-> NoneObject]
    ELSE IF storage = "update_error" THEN [table |-> table, returned |-> NoneObject]
    ELSE [table |-> [table EXCEPT ![url].hit_count = @ + 1],
          returned |-> table[url].content]

\* URLCache.has(url): self.get(url) is not None
URLCache_has(table, url, now, storage) ==
    [table |-> URLCache_get(table, url, now, storage).table,
     returned |-> URLCache_get(table, url, now, storage).returned # NoneObject]

\* URLCache.delete(url)
URLCache_delete(table, url, storage) ==
    IF storage # "ok" THEN [table |-> table, returned |-> FALSE]
    ELSE [table |-> [u \in DOMAIN table \ {url} |-> table[u]], returned |-> TRUE]

NoCall == [op |-> "none"]

(***************************************************************************)
(* Evidence (schemas/evidence.py) and the agents (agents/*.py)             *)
(***************************************************************************)
Evidence(url, title, content, reliability, supports, confidence, explanation) ==
    [url |-> url, title |-> title, content |-> content,
     source_reliability_score |-> reliability, supports_claim |-> supports,
     confidence_score |-> confidence, explanation |-> explanation]

\* a text is known by its identity and its length in characters
Text(id, len) == [id |-> id, len |-> len]

\* text[:n]
Prefix(text, n) == [text EXCEPT !.len = IF text.len < n THEN text.len ELSE n]

CONTENT_LIMIT == 1000
PRO_NUM_RESULTS == 3
CONTRA_NUM_RESULTS == 3
CONTEXT_NUM_RESULTS == 2
EXA_MAX_RESULTS == 100


\* s[:n] of a sequence
Take(s, n) == SubSeq(s, 1, Min(n, Len(s)))

RECURSIVE Flatten(_)
Flatten(ss) == IF ss = <<>> THEN <<>> ELSE Head(ss) \o Flatten(Tail(ss))

RECURSIVE SumOf(_, _)
SumOf(s, field) == IF s = <<>> THEN 0 ELSE Head(s)[field] + SumOf(Tail(s), field)

\* ExaClient.search: outcome is Failed (the API call raised) or the results
\* the service holds for the query; a failure is returned as no results
search(query, num_results, outcome) ==
    IF outcome = Failed THEN <<>>
    ELSE Take(outcome.value, Min(num_results, EXA_MAX_RESULTS))

\* BaseAgent._evidence_from_result raises TypeError on a result whose text is
\* None (None[:1000]); otherwise it returns the Evidence.  _save_to_memory
\* swallows every persistence failure, so it never changes the value returned.
evidence_from_result_raises(res) == res.text = NoneObject

\* variant: the whole text of the result is kept
scored_evidence_untruncated(res, supports, score) ==
    Evidence(res.url, res.title, res.text, score, supports, score,
             [kind |-> "source_score", score |-> score])

scored_evidence(res, supports, score) ==
    Evidence(res.url, res.title, Prefix(res.text, CONTENT_LIMIT), score,
             supports, score, [kind |-> "source_score", score |-> score])

evidence_from_result(res, claim, supports) ==
    scored_evidence(res, supports, score_url(res.url))

CONTEXTUAL_INFORMATION == [kind |-> "contextual"]
NO_OVERRIDE == [kind |-> "none"]

override(ev, explanation) ==
    IF explanation = NO_OVERRIDE THEN ev ELSE [ev EXCEPT !.explanation = explanation]

\* the body shared by the three process_claim methods: every result of every
\* query becomes an Evidence; one malformed result makes the whole call raise
collect(results, claim, supports, explanation) ==
    IF \E i \in 1..Len(results) : evidence_from_result_raises(results[i])
    THEN [raised |-> TRUE, value |-> <<>>]
    ELSE [raised |-> FALSE,
          value |-> [i \in 1..Len(results) |->
                       override(evidence_from_result(results[i], claim, supports),
                                explanation)]]

\* the search loop stops at the first query that returns nothing
RECURSIVE query_results_until_failure(_, _, _)
query_results_until_failure(queries, num_results, outcomes) ==
    IF queries = <<>> \/ search(Head(queries), num_results, Head(outcomes)) = <<>>
    THEN <<>>
    ELSE search(Head(queries), num_results, Head(outcomes))
         \o query_results_until_failure(Tail(queries), num_results, Tail(outcomes))

\* for query in queries: results = self.exa_client.search(query, num_results=n);
\* outcomes[k] is how the k-th search ends
query_results(queries, num_results, outcomes) ==
    Flatten([k \in 1..Len(queries) |-> search(queries[k], num_results, outcomes[k])])

ProAgent_process_claim(claim, outcome) ==
    collect(query_results(claim.search_queries_pro, PRO_NUM_RESULTS,
                          [k \in 1..Len(claim.search_queries_pro) |-> outcome]),
            claim, TRUE, NO_OVERRIDE)

ContraAgent_process_claim(claim, outcome) ==
    collect(query_results(claim.search_queries_contra, CONTRA_NUM_RESULTS,
                          [k \in 1..Len(claim.search_queries_contra) |-> outcome]),
            claim, FALSE, NO_OVERRIDE)

ContextAgent_process_claim(claim, outcome) ==
    collect(search(Fmt("background info ", claim.text), CONTEXT_NUM_RESULTS, outcome),
            claim, TRUE, CONTEXTUAL_INFORMATION)

\* the memory the agents share: the table of the URL cache, the records of
\* the vector index by id, and the time
Memory(cache, index, now) == [cache |-> cache, index |-> index, now |-> now]

\* hashlib.md5(content.encode()).hexdigest(): one id per content
DocumentId(content) == [md5 |-> content]

\* how the calls of one _save_to_memory end: url_cache.set ("ok", or "error"
\* inside set), the md5 of the content ("ok" or "raise") and
\* vector_store.add_documents ("ok", or "error" inside add_documents)
Persist(cache, hash, index) == [cache |-> cache, hash |-> hash, index |-> index]
PersistOk == Persist("ok", "ok", "ok")

\* the metadata _save_to_memory gives add_documents for one Evidence
Metadata(url, claim_id, supports, score) ==
    [url |-> url, claim_id |-> claim_id, supports |-> supports, score |-> score]
IndexEntry(document, metadata) == [document |-> document, metadata |-> metadata]
EmptyIndex == [id \in {} |-> NoneObject]

\* collection.add of one record: a record whose id the collection already
\* holds is not stored again (the collection ignores it, or raises and
\* add_documents returns False); the record it holds is kept either way
collection_add(index, id, document, metadata) ==
    IF id \in DOMAIN index THEN index
    ELSE [i \in DOMAIN index \cup {id} |->
             IF i = id THEN IndexEntry(document, metadata) ELSE index[i]]

\* add_documents keeps a document that is not empty
indexed(index, evidence, claim, persist) ==
    IF persist.hash = "raise" \/ persist.index = "error" \/ evidence.content.len = 0
    THEN index
    ELSE collection_add(index, DocumentId(evidence.content), evidence.content,
                        Metadata(evidence.url, claim.id, evidence.supports_claim,
                                 evidence.source_reliability_score))

\* a persistence failure leaves _save_to_memory as an exception
save_to_memory_propagates(memory, evidence, claim, persist) ==
    [raised |-> persist # PersistOk,
     memory |-> Memory(URLCache_set(memory.cache, evidence.url, evidence.content,
                                    NoneObject, memory.now, persist.cache).table,
                       indexed(memory.index, evidence, claim, persist), memory.now)]

\* BaseAgent._save_to_memory: the memory after it, and whether it raised
save_to_memory(memory, evidence, claim, persist) ==
    [raised |-> FALSE,
     memory |-> Memory(URLCache_set(memory.cache, evidence.url, evidence.content,
                                    NoneObject, memory.now, persist.cache).table,
                       indexed(memory.index, evidence, claim, persist), memory.now)]

Produced(raised, value, memory) == [raised |-> raised, value |-> value, memory |-> memory]
Prepend(evidence, rest) ==
    Produced(rest.raised, IF rest.raised THEN <<>> ELSE <<evidence>> \o rest.value,
             rest.memory)

\* the loop over the results of an agent with a vector store and a URL
\* cache: every result becomes an Evidence, is saved, and is appended;
\* persists[i] is how the saving of the i-th result ends
RECURSIVE produce(_, _, _, _, _, _)
produce(results, claim, supports, explanation, memory, persists) ==
    IF results = <<>> THEN Produced(FALSE, <<>>, memory)
    ELSE IF evidence_from_result_raises(Head(results)) THEN Produced(TRUE, <<>>, memory)
    ELSE IF save_to_memory(memory, evidence_from_result(Head(results), claim, supports),
                           claim, Head(persists)).raised
    THEN Produced(TRUE, <<>>,
                  save_to_memory(memory,
                                 evidence_from_result(Head(results), claim, supports),
                                 claim, Head(persists)).memory)
    ELSE Prepend(override(evidence_from_result(Head(results), claim, supports),
                          explanation),
                 produce(Tail(results), claim, supports, explanation,
                         save_to_memory(memory,
                                        evidence_from_result(Head(results), claim,
                                                             supports),
                                        claim, Head(persists)).memory,
                         Tail(persists)))

\* variant: the Context agent searches for the text of the claim
agent_queries_plain_context(agent, claim) ==
    CASE agent = "pro" -> claim.search_queries_pro
      [] agent = "contra" -> claim.search_queries_contra
      [] OTHER -> <<Fmt("", claim.text)>>

agent_queries(agent, claim) ==
    CASE agent = "pro" -> claim.search_queries_pro
      [] agent = "contra" -> claim.search_queries_contra
      [] OTHER -> <<Fmt("background info ", claim.text)>>
agent_num_results(agent) ==
    CASE agent = "pro" -> PRO_NUM_RESULTS
      [] agent = "contra" -> CONTRA_NUM_RESULTS
      [] OTHER -> CONTEXT_NUM_RESULTS
agent_supports(agent) == agent # "contra"
agent_explanation(agent) ==
    IF agent = "context" THEN CONTEXTUAL_INFORMATION ELSE NO_OVERRIDE

\* process_claim of the agent, with one outcome per search and one per save
process_claim(agent, claim, outcomes, memory, persists) ==
    produce(query_results(agent_queries(agent, claim), agent_num_results(agent),
                          outcomes),
            claim, agent_supports(agent), agent_explanation(agent), memory, persists)

(***************************************************************************)
(* Critic (core/critic.py)                                                 *)
(***************************************************************************)
\* the field constraints of the Evidence schema (ge=0, le=100)
Evidence_validates(e) ==
    /\ 0 <= e.source_reliability_score /\ e.source_reliability_score <= 100
    /\ 0 <= e.confidence_score /\ e.confidence_score <= 100

\* variant: the answer of the oracle is taken without validation
critic_chain_unvalidated(raw) == raw

\* chain = prompt | llm | parser: raw is Failed (the LLM call raised) or the
\* Evidence the oracle wrote; the parser raises on one that does not validate
critic_chain(raw) ==
    IF raw = Failed THEN Failed
    ELSE IF ~Evidence_validates(raw.value) THEN Failed
    ELSE raw

\* the text an oracle puts in place of the content it was given
ORACLE_CONTENT == Text("oracle text", 50)

\* an Evidence the Evaluator oracle writes in a Research pass: its own url,
\* title and reliability, a classification and a confidence; it keeps the
\* content when it keeps the classification and rewrites it otherwise
OracleEvidence(evidence, supports) ==
    Evidence("https://llm/made-up", "oracle title",
             IF supports = evidence.supports_claim THEN evidence.content
             ELSE ORACLE_CONTENT,
             1, supports, 80, [kind |-> "oracle"])

\* the outcome of the oracle call for an answer of the Evaluator oracle
eval_outcome(evidence, answer) ==
    IF answer = "error" THEN Failed
    ELSE critic_chain(Answer(OracleEvidence(evidence,
                               evidence.supports_claim = (answer = "agrees"))))

\* variant: the Evidence of the oracle is returned as it is
evaluate_evidence_as_answered(claim, evidence, outcome) ==
    IF outcome = Failed THEN evidence ELSE outcome.value

\* outcome is Failed (the chain raised: network, parse or schema failure) or
\* the Evidence the oracle's answer parses to
evaluate_evidence(claim, evidence, outcome) ==
    IF outcome = Failed THEN evidence
    ELSE [outcome.value EXCEPT !.url = evidence.url,
                         !.title = evidence.title,
                         !.source_reliability_score = evidence.source_reliability_score]

(***************************************************************************)
(* Conflict resolver (core/conflict_resolver.py)                           *)
(***************************************************************************)
SelectSupporting(evidence_list) == SelectSeq(evidence_list, LAMBDA e : e.supports_claim)
SelectRefuting(evidence_list) == SelectSeq(evidence_list, LAMBDA e : ~e.supports_claim)

RULE_MARGIN == 10

\* Python's float is an IEEE 754 binary64: 53 significant bits, every
\* operation rounded to the nearest value, ties to the even one.  A float
\* x > 0 is [exp, bits] with bits[1] = 1 and
\* x = bits[1] * 2^exp + bits[2] * 2^(exp - 1) + ... + bits[53] * 2^(exp - 52)
MANTISSA_BITS == 53
Zeros(n) == [i \in 1..n |-> 0]
FloatZero == [exp |-> -1075, bits |-> Zeros(MANTISSA_BITS)]

\* the binary digits of a natural number, most significant first
RECURSIVE IntBits(_)
IntBits(n) == IF n = 0 THEN <<>> ELSE IntBits(n \div 2) \o <<n % 2>>

RECURSIVE BitsInt(_)
BitsInt(bits) ==
    IF bits = <<>> THEN 0
    ELSE 2 * BitsInt(SubSeq(bits, 1, Len(bits) - 1)) + bits[Len(bits)]

\* bits plus one unit in the last place, and the carry out of the first
RECURSIVE AddOne(_)
AddOne(bits) ==
    IF bits = <<>> THEN [carry |-> 1, bits |-> <<>>]
    ELSE IF bits[Len(bits)] = 0
    THEN [carry |-> 0, bits |-> SubSeq(bits, 1, Len(bits) - 1) \o <<1>>]
    ELSE [carry |-> AddOne(SubSeq(bits, 1, Len(bits) - 1)).carry,
          bits |-> AddOne(SubSeq(bits, 1, Len(bits) - 1)).bits \o <<0>>]

\* the digits after the 53rd are more than half a unit, or exactly half
\* with an odd 53rd digit; sticky says that nonzero digits follow bits
RoundsUp(bits, sticky) ==
    /\ Len(bits) > MANTISSA_BITS
    /\ bits[MANTISSA_BITS + 1] = 1
    /\ \/ sticky
       \/ bits[MANTISSA_BITS] = 1
       \/ \E i \in (MANTISSA_BITS + 2)..Len(bits) : bits[i] = 1

Carried(exp, sum) ==
    IF sum.carry = 1
    THEN [exp |-> exp + 1, bits |-> <<1>> \o Zeros(MANTISSA_BITS - 1)]
    ELSE [exp |-> exp, bits |-> sum.bits]

\* the float nearest to the number with the digits bits (bits[1] = 1, worth
\* 2^exp), ties to even
round_nearest_even(exp, bits, sticky) ==
    IF RoundsUp(bits, sticky)
    THEN Carried(exp, AddOne(SubSeq(bits, 1, MANTISSA_BITS)))
    ELSE [exp |-> exp,
          bits |-> SubSeq(bits \o Zeros(MANTISSA_BITS), 1, MANTISSA_BITS)]

\* a / n = q * 2^Exponent(a, n) with 1 <= q < 2, and q as a fraction
RECURSIVE Exponent(_, _)
Exponent(a, n) ==
    IF a >= 2 * n THEN Exponent(a, 2 * n) + 1
    ELSE IF a < n THEN Exponent(2 * a, n) - 1
    ELSE 0

RECURSIVE Normalised(_, _)
Normalised(a, n) ==
    IF a >= 2 * n THEN Normalised(a, 2 * n)
    ELSE IF a < n THEN Normalised(2 * a, n)
    ELSE [num |-> a, den |-> n]

\* long division: the first count binary digits of num / den < 2, and what
\* is left of num after them
QuotientBit(num, den) == IF num >= den THEN 1 ELSE 0

RECURSIVE QuotientBits(_, _, _)
QuotientBits(num, den, count) ==
    IF count = 0 THEN <<>>
    ELSE <<QuotientBit(num, den)>>
         \o QuotientBits(2 * (num - QuotientBit(num, den) * den), den, count - 1)

RECURSIVE Remainder(_, _, _)
Remainder(num, den, count) ==
    IF count = 0 THEN num
    ELSE Remainder(2 * (num - QuotientBit(num, den) * den), den, count - 1)

divide_normalised(exp, q) ==
    round_nearest_even(exp, QuotientBits(q.num, q.den, MANTISSA_BITS + 1),
                       Remainder(q.num, q.den, MANTISSA_BITS + 1) # 0)

\* a / n for a float a of integer value and an int n > 0
float_truediv(a, n) ==
    IF a = 0 THEN FloatZero
    ELSE divide_normalised(Exponent(a, n), Normalised(a, n))

\* the digits of x before and after the binary point (0 <= x < 2^53)
IntegerBits(x) ==
    IF x.exp >= 0 THEN SubSeq(x.bits, 1, x.exp + 1) ELSE <<>>
FractionBits(x) ==
    IF x = FloatZero THEN <<>>
    ELSE IF x.exp >= 0 THEN SubSeq(x.bits, x.exp + 2, MANTISSA_BITS)
    ELSE Zeros(-x.exp - 1) \o x.bits

add_digits(int_bits, fraction_bits) ==
    round_nearest_even(Len(int_bits) - 1, int_bits \o fraction_bits, FALSE)

\* x + k for a float x >= 0 and an int k > 0
float_add(x, k) ==
    add_digits(IntBits(BitsInt(IntegerBits(x)) + k), FractionBits(x))

\* x > y for floats x, y >= 0
float_gt(x, y) ==
    \/ x.exp > y.exp
    \/ /\ x.exp = y.exp
       /\ \E i \in 1..MANTISSA_BITS :
            /\ x.bits[i] > y.bits[i]
            /\ \A j \in 1..(i - 1) : x.bits[j] = y.bits[j]

\* the quotients of the sums of up to MaxGroup scores of 0..100, computed once
MaxGroup == 6
MAX_SCORE == 100
quotients ==
    [len \in 1..MaxGroup |-> [score \in 0..(MAX_SCORE * len) |-> float_truediv(score, len)]]

\* score / len(group) of _rule_based_resolution (0 for an empty group)
group_average(score, len) ==
    IF len = 0 THEN FloatZero
    ELSE IF len <= MaxGroup /\ score <= MAX_SCORE * len THEN quotients[len][score]
    ELSE float_truediv(score, len)

\* the three branches of _rule_based_resolution on the two float averages
compare_floats(support_avg, refute_avg, ns, nr) ==
    IF float_gt(support_avg, float_add(refute_avg, RULE_MARGIN))
    THEN [kind |-> "supporting_stronger", supporting |-> ns, refuting |-> nr]
    ELSE IF float_gt(refute_avg, float_add(support_avg, RULE_MARGIN))
    THEN [kind |-> "refuting_stronger", supporting |-> ns, refuting |-> nr]
    ELSE [kind |-> "unresolved", supporting |-> ns, refuting |-> nr]

\* the comparison the rule would make on the exact means:
\* a/b > c/d + 10 iff a*d > c*b + 10*b*d
compare_exact_means(ss, ns, rs, nr) ==
    IF ss * nr > rs * ns + RULE_MARGIN * ns * nr
    THEN [kind |-> "supporting_stronger", supporting |-> ns, refuting |-> nr]
    ELSE IF rs * ns > ss * nr + RULE_MARGIN * ns * nr
    THEN [kind |-> "refuting_stronger", supporting |-> ns, refuting |-> nr]
    ELSE [kind |-> "unresolved", supporting |-> ns, refuting |-> nr]

compare_averages(ss, ns, rs, nr) ==
    compare_floats(group_average(ss, ns), group_average(rs, nr), ns, nr)

rule_based_resolution(claim, supporting, refuting) ==
    compare_averages(SumOf(supporting, "source_reliability_score"), Len(supporting),
                     SumOf(refuting, "source_reliability_score"), Len(refuting))

resolve_split_always_asks(claim, evidence_list, supporting, refuting, outcome) ==
    IF evidence_list = <<>> THEN [kind |-> "no_evidence"]
    ELSE IF outcome = Failed
    THEN rule_based_resolution(claim, supporting, refuting)
    ELSE [kind |-> "oracle", content |-> outcome.value]

\* outcome is Failed or the text the oracle answers; it is consulted only
\* for evidence of mixed polarity
resolve_split(claim, evidence_list, supporting, refuting, outcome) ==
    IF evidence_list = <<>> THEN [kind |-> "no_evidence"]
    ELSE IF supporting = <<>> \/ refuting = <<>>
    THEN [kind |-> "no_conflict",
          direction |-> IF supporting # <<>> THEN "supporting" ELSE "refuting",
          count |-> IF supporting # <<>> THEN Len(supporting) ELSE Len(refuting),
          avg_score |-> [num |-> SumOf(evidence_list, "source_reliability_score"),
                         den |-> Len(evidence_list)]]
    ELSE IF outcome = Failed
    THEN rule_based_resolution(claim, supporting, refuting)
    ELSE [kind |-> "oracle", content |-> outcome.value]

resolve(claim, evidence_list, outcome) ==
    resolve_split(claim, evidence_list, SelectSupporting(evidence_list),
                  SelectRefuting(evidence_list), outcome)

\* the number of chain.ainvoke calls resolve makes: the no-evidence and the
\* no-conflict branch return before the chain is built
resolve_invocations(evidence_list) ==
    IF evidence_list = <<>> THEN 0
    ELSE IF SelectSupporting(evidence_list) = <<>> \/ SelectRefuting(evidence_list) = <<>>
    THEN 0
    ELSE 1

ConflictAnalysis(has_conflicts, conflict_description, resolution, winning_position, confidence_in_resolution) ==
    [has_conflicts |-> has_conflicts, conflict_description |-> conflict_description,
     resolution |-> resolution, winning_position |-> winning_position,
     confidence_in_resolution |-> confidence_in_resolution]

\* Field(..., ge=0, le=100) of ConflictAnalysis
ConflictAnalysis_validates(a) ==
    a.confidence_in_resolution >= 0 /\ a.confidence_in_resolution <= 100

\* prompt | llm | parser: an answer that does not validate raises
analysis_chain(raw) ==
    IF raw = Failed THEN Failed
    ELSE IF ConflictAnalysis_validates(raw.value) THEN raw
    ELSE Failed

ONE_SIDED_CAP == 80
ONE_SIDED_STEP == 20
FALLBACK_CONFIDENCE == 30

one_sided_analysis_uncapped(direction, evidence_list) ==
    ConflictAnalysis(FALSE, NoneObject,
                     [kind |-> "all_one_direction", direction |-> direction],
                     direction, Len(evidence_list) * ONE_SIDED_STEP)

one_sided_analysis(direction, evidence_list) ==
    ConflictAnalysis(FALSE, NoneObject,
                     [kind |-> "all_one_direction", direction |-> direction],
                     direction, Min(ONE_SIDED_CAP, Len(evidence_list) * ONE_SIDED_STEP))

\* outcome is Failed or the ConflictAnalysis the chain returns
detailed_analysis_split(claim, evidence_list, supporting, refuting, outcome) ==
    IF evidence_list = <<>>
    THEN ConflictAnalysis(FALSE, NoneObject, [kind |-> "no_evidence"], None, 0)
    ELSE IF supporting = <<>> \/ refuting = <<>>
    THEN one_sided_analysis(IF supporting # <<>> THEN "support" ELSE "refute",
                            evidence_list)
    ELSE IF outcome = Failed
    THEN ConflictAnalysis(TRUE, [kind |-> "error"],
                          rule_based_resolution(claim, supporting, refuting),
                          None, FALLBACK_CONFIDENCE)
    ELSE outcome.value

detailed_analysis(claim, evidence_list, outcome) ==
    detailed_analysis_split(claim, evidence_list, SelectSupporting(evidence_list),
                            SelectRefuting(evidence_list), outcome)

detailed_analysis_invocations(evidence_list) ==
    IF evidence_list = <<>> THEN 0
    ELSE IF SelectSupporting(evidence_list) = <<>> \/ SelectRefuting(evidence_list) = <<>>
    THEN 0
    ELSE 1

(***************************************************************************)
(* Findings (schemas/finding.py, workflow.py research_node)                *)
(***************************************************************************)
Finding(claim, evidence, verdict, confidence, summary) ==
    [claim |-> claim, evidence |-> evidence, verdict |-> verdict,
     confidence_score |-> confidence, summary |-> summary]

\* variant: the boundary ratios fall in the lower bucket
verdict_of_exclusive(supporting, total) ==
    IF 10 * supporting > 7 * total THEN "VALID"
    ELSE IF 10 * supporting > 4 * total THEN "PARTIALLY_VALID"
    ELSE IF 10 * supporting > 2 * total THEN "INCONCLUSIVE"
    ELSE "REFUTED"

\* support_ratio >= 0.7, 0.4, 0.2 with support_ratio = supporting / total
verdict_of(supporting, total) ==
    IF 10 * supporting >= 7 * total THEN "VALID"
    ELSE IF 10 * supporting >= 4 * total THEN "PARTIALLY_VALID"
    ELSE IF 10 * supporting >= 2 * total THEN "INCONCLUSIVE"
    ELSE "REFUTED"

\* an agent that raised counts as no evidence (gather, return_exceptions=True)
or_empty(agent_result) == IF agent_result.raised THEN <<>> ELSE agent_result.value

\* variant: an item whose evaluation failed is left out
evaluate_all_drops_failed(claim, raw_evidence, answer) ==
    IF answer = "error" THEN <<>>
    ELSE [j \in 1..Len(raw_evidence) |->
            evaluate_evidence(claim, raw_evidence[j], eval_outcome(raw_evidence[j], answer))]

evaluate_all(claim, raw_evidence, answer) ==
    [j \in 1..Len(raw_evidence) |->
        evaluate_evidence(claim, raw_evidence[j], eval_outcome(raw_evidence[j], answer))]

\* variant: the confidence of a Finding is the mean source reliability
build_finding_by_reliability(claim, evaluated_evidence, resolution) ==
    IF evaluated_evidence # <<>>
    THEN Finding(claim, evaluated_evidence,
                 verdict_of(Len(SelectSupporting(evaluated_evidence)),
                            Len(evaluated_evidence)),
                 [num |-> SumOf(evaluated_evidence, "source_reliability_score"),
                  den |-> Len(evaluated_evidence)],
                 resolution)
    ELSE Finding(claim, evaluated_evidence, "INCONCLUSIVE", [num |-> 0, den |-> 1],
                 resolution)

\* variant: contextual evidence is left out of the counts
NotContextual(evidence_list) ==
    SelectSeq(evidence_list, LAMBDA e : e.explanation # CONTEXTUAL_INFORMATION)
build_finding_skips_contextual(claim, evaluated_evidence, resolution) ==
    IF NotContextual(evaluated_evidence) # <<>>
    THEN Finding(claim, evaluated_evidence,
                 verdict_of(Len(SelectSupporting(NotContextual(evaluated_evidence))),
                            Len(NotContextual(evaluated_evidence))),
                 [num |-> SumOf(NotContextual(evaluated_evidence), "confidence_score"),
                  den |-> Len(NotContextual(evaluated_evidence))],
                 resolution)
    ELSE Finding(claim, evaluated_evidence, "INCONCLUSIVE", [num |-> 0, den |-> 1],
                 resolution)

build_finding(claim, evaluated_evidence, resolution) ==
    IF evaluated_evidence # <<>>
    THEN Finding(claim, evaluated_evidence,
                 verdict_of(Len(SelectSupporting(evaluated_evidence)),
                            Len(evaluated_evidence)),
                 [num |-> SumOf(evaluated_evidence, "confidence_score"),
                  den |-> Len(evaluated_evidence)],
                 resolution)
    ELSE Finding(claim, evaluated_evidence, "INCONCLUSIVE", [num |-> 0, den |-> 1],
                 resolution)

resolve_and_build(claim, evaluated_evidence, outcome) ==
    build_finding(claim, evaluated_evidence, resolve(claim, evaluated_evidence, outcome))

\* variant: an agent that raises costs the claim all its evidence
claim_finding_all_or_nothing(claim, env) ==
    resolve_and_build(claim,
        evaluate_all(claim,
            IF \/ ProAgent_process_claim(claim, env.search["pro"]).raised
               \/ ContraAgent_process_claim(claim, env.search["contra"]).raised
               \/ ContextAgent_process_claim(claim, env.search["context"]).raised
            THEN <<>>
            ELSE ProAgent_process_claim(claim, env.search["pro"]).value
                 \o ContraAgent_process_claim(claim, env.search["contra"]).value
                 \o ContextAgent_process_claim(claim, env.search["context"]).value,
            env.eval),
        env.resolve)

\* the body of research_node's loop for one claim; env gives the answer of
\* every external call made for the claim
claim_finding(claim, env) ==
    resolve_and_build(claim,
        evaluate_all(claim,
            or_empty(ProAgent_process_claim(claim, env.search["pro"]))
            \o or_empty(ContraAgent_process_claim(claim, env.search["contra"]))
            \o or_empty(ContextAgent_process_claim(claim, env.search["context"])),
            env.eval),
        env.resolve)

(***************************************************************************)
(* Answers of the external services                                        *)
(***************************************************************************)
Agents == {"pro", "contra", "context"}

SearchResult(url, title, text) == [url |-> url, title |-> title, text |-> text]

\* what the Evidence Source holds for the queries of each agent
ResultOf(agent) ==
    CASE agent = "pro" ->
           SearchResult("https://arxiv.org/abs/123", "paper", Text("pro text", 1500))
      [] agent = "contra" ->
           SearchResult("https://WWW.Reddit.com/r/x", None, Text("contra text", 200))
      [] OTHER ->
           SearchResult("https://en.wikipedia.org/wiki/X", "article", Text("context text", 1000))

\* a result the service returns without text
MalformedResult == SearchResult("http://[::1", None, NoneObject)

SearchOutcomes(agent) ==
    {Failed, Answer(<<ResultOf(agent)>>), Answer(<<MalformedResult>>)}
SearchFaults == {Failed, Answer(<<MalformedResult>>)}

\* how the Evaluator oracle answers in one Research pass: it fails, or it
\* agrees or disagrees with the polarity the agent gave the evidence
EvalAnswers == {"error", "agrees", "disagrees"}
ResolveOutcomes == {Failed, Answer("oracle resolution")}

AllEnvs ==
    {env \in [search : [Agents -> UNION {SearchOutcomes(a) : a \in Agents}],
              eval : EvalAnswers,
              resolve : ResolveOutcomes] :
        \A a \in Agents : env.search[a] \in SearchOutcomes(a)}

FaultsOf(env) ==
    Cardinality({a \in Agents : env.search[a] \in SearchFaults})
    + (IF env.eval = "error" THEN 1 ELSE 0)
    + (IF env.resolve = Failed THEN 1 ELSE 0)

\* the answers one Research pass may get: at most MaxFaults calls go wrong
ClaimEnvs == {env \in AllEnvs : FaultsOf(env) <= MaxFaults}

\* claims the Decomposer oracle may return
OracleClaim(id, pro, contra) ==
    Claim(id, id, "evidence", "refutation", pro, contra)
\* the k-th claim has a pro query, and a contra query when k is odd
PoolClaim(k) ==
    OracleClaim(<<"claim", k>>, <<Fmt("", <<"pro", k>>)>>,
                IF k % 2 = 1 THEN <<Fmt("", <<"contra", k>>)>> ELSE <<>>)
Reverse(s) == [i \in 1..Len(s) |-> s[Len(s) + 1 - i]]
OracleClaimLists ==
    UNION {{[k \in 1..n |-> PoolClaim(k)], Reverse([k \in 1..n |-> PoolClaim(k)])} :
           n \in 0..MaxClaims}

DecomposeOutcomes == {Failed} \cup {Answer(cs) : cs \in OracleClaimLists}

\* ClarificationResult values the Clarifier oracle may return
ClarificationResult(is_ambiguous, clarification_question, refined_hypothesis) ==
    [is_ambiguous |-> is_ambiguous, clarification_question |-> clarification_question,
     refined_hypothesis |-> refined_hypothesis]
ClarifyOutcomes ==
    {Failed} \cup
    {Answer(ClarificationResult(a, q, r)) :
        a \in BOOLEAN, q \in {None, "which year?"}, r \in {None, ""} \cup RefinedTexts}

\* Reports the Synthesizer oracle may return
SynthesizeOutcomes(hyp, fs) ==
    {Failed} \cup
    {Answer(Report(hyp.text, "PARTIALLY_VALID", c, "oracle summary", fs, <<>>, <<>>)) :
        c \in ReportConfidences}

\* VectorStore(): a store (persistent, or the in-memory fallback), or an
\* exception (os.makedirs, or the fallback client failing too)
VectorStoreInits == {"ready", "raise"}

(***************************************************************************)
(* Core components with one oracle call each                               *)
(***************************************************************************)
clarify(hyp, outcome) ==
    IF outcome = Failed THEN ClarificationResult(FALSE, None, None)
    ELSE outcome.value

decompose(hyp, outcome) ==
    IF outcome = Failed THEN <<>> ELSE outcome.value

\* variant: the fallback Report carries an ordinary verdict
synthesize_report_inconclusive(hyp, fs, outcome) ==
    IF outcome = Failed
    THEN Report(hyp.text, "INCONCLUSIVE", 0, "Failed to generate report.", <<>>, <<>>, <<>>)
    ELSE outcome.value

synthesize_report(hyp, fs, outcome) ==
    IF outcome = Failed
    THEN Report(hyp.text, "ERROR", 0, "Failed to generate report.", <<>>, <<>>, <<>>)
    ELSE outcome.value

\* truth value of an Optional[str]
Truthy(s) == s # None /\ s # ""

(***************************************************************************)
(* The workflow (graph/workflow.py, graph/state.py, main.py)               *)
(***************************************************************************)
get_initial_state(hyp) ==
    [hypothesis |-> hyp, claims |-> <<>>, evidence |-> <<>>, findings |-> <<>>,
     report |-> NoneObject, iterations |-> 0]

Init ==
    \E t \in HypothesisTexts, c \in Contexts :
        LET s == get_initial_state(Hypothesis(t, c))
        IN  /\ hypothesis = s.hypothesis
            /\ claims = s.claims
            /\ findings = s.findings
            /\ report = s.report
            /\ iterations = s.iterations
            /\ pc = "clarify"
            /\ vector_store = "unset"
            /\ decision = "none"
            /\ synth_outcome = "none"
            /\ trace = <<>>
            /\ confidences = <<>>
            /\ decomposed = <<NoneObject>>
            /\ result = [kind |-> "running"]
            /\ started_with = s.hypothesis
            /\ clarification = NoneObject
            /\ unit = [kind |-> "idle"]
            /\ url_cache = EmptyTable
            /\ clock = 0
            /\ cache_call = NoCall

\* variant: the refined hypothesis is built without the context
clarified_hypothesis_no_context(hyp, res) ==
    IF Truthy(res.refined_hypothesis)
    THEN Hypothesis(res.refined_hypothesis, None)
    ELSE hyp

\* the hypothesis clarify_node leaves in the state for a ClarificationResult
clarified_hypothesis(hyp, res) ==
    IF Truthy(res.refined_hypothesis)
    THEN Hypothesis(res.refined_hypothesis, hyp.context)
    ELSE hyp

clarify_node ==
    /\ pc = "clarify"
    /\ \E outcome \in ClarifyOutcomes :
        /\ clarification' = [failed |-> outcome = Failed,
                             result |-> clarify(hypothesis, outcome)]
        /\ hypothesis' = clarified_hypothesis(hypothesis, clarification'.result)
    /\ pc' = "decompose"
    /\ trace' = Append(trace, "clarify")
    /\ UNCHANGED <<claims, findings, report, iterations, vector_store, decision,
                   synth_outcome, confidences, decomposed, result, started_with,
                   unit, cache_vars>>

\* variant: the default claim has a single contra query
fallback_claim_one_contra(hyp) ==
    Claim("claim_1", hyp.text,
          "Evidence supporting or refuting this statement",
          "Evidence contradicting this statement",
          <<Fmt("", hyp.text)>>,
          <<Fmt("criticism ", hyp.text)>>)

fallback_claim(hyp) ==
    Claim("claim_1", hyp.text,
          "Evidence supporting or refuting this statement",
          "Evidence contradicting this statement",
          <<Fmt("", hyp.text)>>,
          <<Fmt("criticism ", hyp.text), Fmt("problems with ", hyp.text)>>)

decompose_node ==
    /\ pc = "decompose"
    /\ \E outcome \in DecomposeOutcomes :
        /\ decomposed' = decompose(hypothesis, outcome)
        /\ claims' = IF decomposed' = <<>> THEN <<fallback_claim(hypothesis)>>
                      ELSE decomposed'
    /\ pc' = "research"
    /\ trace' = Append(trace, "decompose")
    /\ clarification' = NoneObject
    /\ UNCHANGED <<hypothesis, findings, report, iterations, vector_store, decision,
                   synth_outcome, confidences, result, started_with, unit, cache_vars>>

\* research_node's loop: one Finding per claim, in claim order; envs[i] gives
\* the answers of the external calls made for claims[i]
research_findings(cs, envs) ==
    [i \in 1..Len(cs) |-> claim_finding(cs[i], envs[i])]

\* variant: the findings key has the reducer operator.add
updated_findings_added(old, new) == old \o new

\* a key of ResearchState without a reducer is overwritten by the node's value
updated_findings(old, new) == new

\* get_vector_store(): the lazily built module singleton
get_vector_store(init) == IF vector_store = "unset" THEN init ELSE vector_store

research_node ==
    /\ pc = "research"
    /\ trace' = Append(trace, "research")
    /\ \E init \in VectorStoreInits :
        IF get_vector_store(init) = "raise"
        THEN /\ pc' = "raised"
             /\ UNCHANGED <<findings, vector_store>>
        ELSE /\ vector_store' = get_vector_store(init)
             /\ \E env \in ClaimEnvs :
                  findings' = updated_findings(findings,
                      research_findings(claims, [i \in 1..Len(claims) |-> env]))
             /\ pc' = "synthesize"
    /\ UNCHANGED <<hypothesis, claims, report, iterations, decision, synth_outcome,
                   confidences, decomposed, result, started_with, clarification,
                   unit, cache_vars>>

\* variant: the counter advances by two
next_iterations_by_two(its) == its + 2

\* state.get("iterations", 0) + 1
next_iterations(its) == its + 1

\* variant: a failed synthesis leaves the report of the state as it was
synthesize_node_keeps_report ==
    /\ pc = "synthesize"
    /\ \E outcome \in SynthesizeOutcomes(hypothesis, findings) :
        /\ report' = IF outcome = Failed THEN report
                      ELSE synthesize_report(hypothesis, findings, outcome)
        /\ synth_outcome' = IF outcome = Failed THEN "error" ELSE "ok"
        /\ confidences' = Append(confidences,
                                  IF outcome = Failed THEN 0 ELSE report'.confidence_score)
    /\ iterations' = next_iterations(iterations)
    /\ pc' = "check"
    /\ trace' = Append(trace, "synthesize")
    /\ UNCHANGED <<hypothesis, claims, findings, vector_store, decision, decomposed,
                   result, started_with, clarification, unit, cache_vars>>

synthesize_node ==
    /\ pc = "synthesize"
    /\ \E outcome \in SynthesizeOutcomes(hypothesis, findings) :
        /\ report' = synthesize_report(hypothesis, findings, outcome)
        /\ synth_outcome' = IF outcome = Failed THEN "error" ELSE "ok"
    /\ confidences' = Append(confidences, report'.confidence_score)
    /\ iterations' = next_iterations(iterations)
    /\ pc' = "check"
    /\ trace' = Append(trace, "synthesize")
    /\ UNCHANGED <<hypothesis, claims, findings, vector_store, decision, decomposed,
                   result, started_with, clarification, unit, cache_vars>>

\* variant: a report exactly at the threshold asks for another pass
should_continue_at_threshold(rep, its) ==
    IF rep = NoneObject THEN "end"
    ELSE IF rep.confidence_score <= MIN_CONFIDENCE_THRESHOLD /\ its < MAX_ITERATIONS
         THEN "research"
         ELSE "end"

\* variant: the cap lets one more pass through
should_continue_past_cap(rep, its) ==
    IF rep = NoneObject THEN "end"
    ELSE IF rep.confidence_score < MIN_CONFIDENCE_THRESHOLD /\ its <= MAX_ITERATIONS
         THEN "research"
         ELSE "end"

\* variant: the ERROR report ends the run
should_continue_stops_on_error(rep, its) ==
    IF rep = NoneObject THEN "end"
    ELSE IF rep.verdict = "ERROR" THEN "end"
    ELSE IF rep.confidence_score < MIN_CONFIDENCE_THRESHOLD /\ its < MAX_ITERATIONS
         THEN "research"
         ELSE "end"

should_continue(rep, its) ==
    IF rep = NoneObject THEN "end"
    ELSE IF rep.confidence_score < MIN_CONFIDENCE_THRESHOLD /\ its < MAX_ITERATIONS
         THEN "research"
         ELSE "end"

\* variant: "research" is routed to the decompose node
conditional_edge_redecompose ==
    /\ pc = "check"
    /\ decision' = should_continue(report, iterations)
    /\ pc' = IF decision' = "research" THEN "decompose" ELSE "end"
    /\ UNCHANGED <<hypothesis, claims, findings, report, iterations, vector_store,
                   synth_outcome, trace, confidences, decomposed, result,
                   started_with, clarification, unit, cache_vars>>

\* variant: "research" is routed straight back to the synthesize node
conditional_edge_resynthesize ==
    /\ pc = "check"
    /\ decision' = should_continue(report, iterations)
    /\ pc' = IF decision' = "research" THEN "synthesize" ELSE "end"
    /\ UNCHANGED <<hypothesis, claims, findings, report, iterations, vector_store,
                   synth_outcome, trace, confidences, decomposed, result,
                   started_with, clarification, unit, cache_vars>>

\* the conditional edge out of synthesize
conditional_edge ==
    /\ pc = "check"
    /\ decision' = should_continue(report, iterations)
    /\ pc' = IF decision' = "research" THEN "research" ELSE "end"
    /\ UNCHANGED <<hypothesis, claims, findings, report, iterations, vector_store,
                   synth_outcome, trace, confidences, decomposed, result,
                   started_with, clarification, unit, cache_vars>>

\* run_research once app.ainvoke has returned or raised
run_research ==
    /\ pc \in {"end", "raised"}
    /\ result.kind = "running"
    /\ result' = IF pc = "raised" THEN [kind |-> "raised"]
                 ELSE [kind |-> "returned", value |-> report]
    /\ UNCHANGED <<pc, hypothesis, claims, findings, report, iterations, vector_store,
                   decision, synth_outcome, trace, confidences, decomposed,
                   started_with, clarification, unit, cache_vars>>

Next ==
    \/ clarify_node
    \/ decompose_node
    \/ research_node
    \/ synthesize_node
    \/ conditional_edge
    \/ run_research

Spec == Init /\ [][Next]_vars

\* variant: a cancelled node leaves the Findings it had finished in the state
cancelled_findings_flushed(old, local) == local

\* the findings of the state after research_node was cancelled with `local`
\* in its local list: the node returned nothing, the state keeps its value
cancelled_findings(old, local) == old

\* research_node cancelled at one of its awaits (asyncio.gather,
\* evaluate_evidence, resolve) after `done` claims were finished:
\* CancelledError is not an Exception, so it leaves the node and the run
research_node_cancelled ==
    /\ pc = "research"
    /\ claims # <<>>
    /\ trace' = Append(trace, "research")
    /\ \E init \in VectorStoreInits :
        /\ get_vector_store(init) # "raise"
        /\ vector_store' = get_vector_store(init)
    /\ \E env \in ClaimEnvs, done \in 0..(Len(claims) - 1) :
        /\ findings' = cancelled_findings(findings,
               SubSeq(research_findings(claims, [i \in 1..Len(claims) |-> env]), 1, done))
        /\ result' = [kind |-> "cancelled",
                      local |-> SubSeq(research_findings(claims,
                                           [i \in 1..Len(claims) |-> env]), 1, done)]
    /\ pc' = "cancelled"
    /\ UNCHANGED <<hypothesis, claims, report, iterations, decision, synth_outcome,
                   confidences, decomposed, started_with, clarification, unit,
                   cache_vars>>

\* the workflow of a run that may be cancelled
CancelNext ==
    \/ Next
    \/ research_node_cancelled

CancelSpec == Init /\ [][CancelNext]_vars

(***************************************************************************)
(* Components called on their own, over all the answers of their oracle    *)
(***************************************************************************)
workflow_vars ==
    <<pc, hypothesis, claims, findings, report, iterations, vector_store, decision,
      synth_outcome, trace, confidences, decomposed, result, started_with,
      clarification>>

\* confidence values an Evaluator oracle may write: one that validates and
\* two outside 0..100
EvalConfidences == {80, 150, -5}

\* what the Evaluator oracle may answer for an Evidence: every field is its
\* own choice, a reliability outside 0..100 included
RawEvalOutcomes(evidence) ==
    {Failed} \cup
    {Answer(Evidence(u, t, c, r, s, cf, [kind |-> "oracle"])) :
        u \in {evidence.url, "https://llm/made-up"},
        t \in {evidence.title, "oracle title"},
        c \in {evidence.content, ORACLE_CONTENT},
        r \in {evidence.source_reliability_score, 1, 101},
        s \in BOOLEAN,
        cf \in EvalConfidences}

\* the Evidence the agents build from the results of the Evidence Source
UnitEvidence ==
    {evidence_from_result(ResultOf(a), PoolClaim(1), a # "contra") : a \in Agents}

\* Critic.evaluate_evidence(claim, evidence)
unit_evaluate ==
    /\ unit.kind = "idle"
    /\ \E evidence \in UnitEvidence :
        \E raw \in RawEvalOutcomes(evidence) :
            unit' = [kind |-> "evaluate", evidence |-> evidence, raw |-> raw,
                     returned |-> evaluate_evidence(PoolClaim(1), evidence,
                                                    critic_chain(raw))]
    /\ UNCHANGED <<workflow_vars, cache_vars>>

\* claim lists of a Research pass: two claims in both orders, and the
\* default claim of decompose_node
UnitClaimLists ==
    {<<PoolClaim(1), PoolClaim(2)>>, <<PoolClaim(2), PoolClaim(1)>>,
     <<fallback_claim(Hypothesis("h0", None))>>}

\* every call made for a claim succeeds, or every one fails
AllGoodEnv ==
    [search |-> [a \in Agents |-> Answer(<<ResultOf(a)>>)], eval |-> "agrees",
     resolve |-> Answer("oracle resolution")]
AllFailedEnv ==
    [search |-> [a \in Agents |-> Failed], eval |-> "error", resolve |-> Failed]

\* the answers for the claims of a pass: any for the first claim, all good
\* or all failed for the others
UnitEnvs(cs) ==
    {envs \in [1..Len(cs) -> AllEnvs] :
        \A i \in 2..Len(cs) : envs[i] \in {AllGoodEnv, AllFailedEnv}}

\* the loop of research_node over a claim list
unit_research ==
    /\ unit.kind = "idle"
    /\ \E cs \in UnitClaimLists :
        \E envs \in UnitEnvs(cs) :
            unit' = [kind |-> "research", claims |-> cs, envs |-> envs,
                     findings |-> updated_findings(<<>>, research_findings(cs, envs))]
    /\ UNCHANGED <<workflow_vars, cache_vars>>

\* largest evidence count of a Finding whose verdict is computed
MaxEvidence == 10

\* the verdict research_node computes from the evidence counts
unit_verdict ==
    /\ unit.kind = "idle"
    /\ \E total \in 1..MaxEvidence :
        \E supporting \in 0..total :
            unit' = [kind |-> "verdict", supporting |-> supporting, total |-> total,
                     verdict |-> verdict_of(supporting, total)]
    /\ UNCHANGED <<workflow_vars, cache_vars>>

\* longest evidence list handed to the Conflict Resolver
MaxResolverEvidence == 6

\* Evidence as the Critic returns it, with reliabilities the scorer gives:
\* 20 and 90 on the supporting side, 30 and 70 on the refuting side
ResolverEvidence(supports, reliability) ==
    Evidence("https://arxiv.org/abs/123", "paper", Text("pro text", 1000), reliability,
             supports, 80, [kind |-> "oracle"])

ResolverItems ==
    {ResolverEvidence(TRUE, 20), ResolverEvidence(TRUE, 90),
     ResolverEvidence(FALSE, 30), ResolverEvidence(FALSE, 70)}

ResolverEvidenceLists ==
    UNION {[1..n -> ResolverItems] : n \in 0..MaxResolverEvidence}

\* ConflictResolver.resolve(claim, evidence_list)
unit_resolve ==
    /\ unit.kind = "idle"
    /\ \E evidence_list \in ResolverEvidenceLists :
        \E outcome \in ResolveOutcomes :
            unit' = [kind |-> "resolve", evidence_list |-> evidence_list,
                     outcome |-> outcome,
                     oracle_calls |-> resolve_invocations(evidence_list),
                     returned |-> resolve(PoolClaim(1), evidence_list, outcome)]
    /\ UNCHANGED <<workflow_vars, cache_vars>>

\* what the oracle may answer to detailed_analysis: a valid analysis, or
\* one whose confidence is outside 0..100
AnalysisOutcomes ==
    {Failed,
     Answer(ConflictAnalysis(TRUE, [kind |-> "oracle"], [kind |-> "oracle",
            content |-> "oracle resolution"], "support", 70)),
     Answer(ConflictAnalysis(TRUE, [kind |-> "oracle"], [kind |-> "oracle",
            content |-> "oracle resolution"], "refute", 150))}

\* ConflictResolver.detailed_analysis(claim, evidence_list)
unit_detailed_analysis ==
    /\ unit.kind = "idle"
    /\ \E evidence_list \in ResolverEvidenceLists :
        \E raw \in AnalysisOutcomes :
            unit' = [kind |-> "detailed_analysis", evidence_list |-> evidence_list,
                     raw |-> raw,
                     oracle_calls |-> detailed_analysis_invocations(evidence_list),
                     returned |-> detailed_analysis(PoolClaim(1), evidence_list,
                                                    analysis_chain(raw))]
    /\ UNCHANGED <<workflow_vars, cache_vars>>

\* the calls made on the scorer: score_url and score_with_modifiers for
\* every URL of the model and every combination of the seven flags
ScorerCalls ==
    {ScorerCall("score_url", url, NoFlags) : url \in ModelUrls}
    \cup {ScorerCall("score_with_modifiers", url, flags) :
            url \in ModelUrls, flags \in [DOMAIN MODIFIERS -> BOOLEAN]}

\* the calls made between two calls with the same arguments
CallsBetween ==
    {ScorerCall("score_url", "https://reddit.com/r/x", NoFlags),
     ScorerCall("score_with_modifiers", "https://arxiv.org/abs/123",
                [m \in DOMAIN MODIFIERS |-> TRUE]),
     ScorerCall("score_with_modifiers", "http://[::1",
                [m \in DOMAIN MODIFIERS |-> m = "is_recent"])}

after_first(call) == scorer_call(SourceScorer, call)
after_between(call, between) == scorer_call(after_first(call).cls, between)
after_second(call, between) == scorer_call(after_between(call, between).cls, call)

\* the same scorer call made twice, with another call in between
unit_score ==
    /\ unit.kind = "idle"
    /\ \E call \in ScorerCalls :
        \E between \in CallsBetween :
            unit' = [kind |-> "score", call |-> call, between |-> between,
                     first |-> after_first(call).returned,
                     second |-> after_second(call, between).returned,
                     cls_before |-> SourceScorer,
                     cls_after |-> after_second(call, between).cls]
    /\ UNCHANGED <<workflow_vars, cache_vars>>

\* what the Evidence Source may answer to one query: it fails, or it has
\* one result or four
AgentResults ==
    <<ResultOf("pro"), ResultOf("contra"), ResultOf("context"),
      SearchResult("https://reddit.com/r/x", "thread", Text("thread text", 0))>>
QueryOutcomes == {Failed, Answer(Take(AgentResults, 1)), Answer(AgentResults)}

\* most results one agent handles for the default claim
MaxAgentResults == 6
PersistFaults ==
    {Persist("error", "ok", "ok"), Persist("ok", "raise", "ok"),
     Persist("ok", "ok", "error"), Persist("error", "ok", "error")}

\* the savings of a call: all succeed, one fails, or all fail the same way
PersistPlans ==
    {[i \in 1..MaxAgentResults |-> PersistOk]}
    \cup {[i \in 1..MaxAgentResults |-> IF i = j THEN fault ELSE PersistOk] :
            j \in 1..MaxAgentResults, fault \in PersistFaults}
    \cup {[i \in 1..MaxAgentResults |-> fault] : fault \in PersistFaults}

EmptyMemory == Memory(EmptyTable, EmptyIndex, 0)

\* process_claim of one agent for the default claim of decompose_node
unit_agent ==
    /\ unit.kind = "idle"
    /\ \E agent \in Agents :
        \E outcomes \in [1..Len(agent_queries(agent, fallback_claim(Hypothesis("h0", None))))
                            -> QueryOutcomes] :
            \E persists \in PersistPlans :
                unit' = [kind |-> "agent", agent |-> agent, outcomes |-> outcomes,
                         persists |-> persists,
                         returned |-> process_claim(agent,
                                         fallback_claim(Hypothesis("h0", None)),
                                         outcomes, EmptyMemory, persists)]
    /\ UNCHANGED <<workflow_vars, cache_vars>>

\* what two agents, or two iterations, may find: the same page again, the
\* page with another text, and the same text at another URL
WrittenResults ==
    {ResultOf("pro"), ResultOf("contra"),
     SearchResult("https://arxiv.org/abs/123", "paper", Text("revised text", 900)),
     SearchResult("https://en.wikipedia.org/wiki/X", "article", Text("pro text", 1500))}

\* ticks between two writes
MaxWriteGap == 1

\* the memory at a later time
Later(memory, gap) == Memory(memory.cache, memory.index, memory.now + gap)

\* the Evidence an agent saves for a result of the default claim
Written(res, supports) ==
    evidence_from_result(res, fallback_claim(Hypothesis("h0", None)), supports)

\* the memory after _save_to_memory succeeded in saving the evidence
saved(memory, evidence) ==
    save_to_memory(memory, evidence, fallback_claim(Hypothesis("h0", None)),
                   PersistOk).memory

\* two _save_to_memory calls on a new memory, by two agents of the claim or
\* in two iterations
unit_writes ==
    /\ unit.kind = "idle"
    /\ \E r1 \in WrittenResults, r2 \in WrittenResults :
        \E s1 \in BOOLEAN, s2 \in BOOLEAN :
            \E gap \in 0..MaxWriteGap :
                unit' = [kind |-> "writes",
                         first |-> Written(r1, s1), second |-> Written(r2, s2),
                         after_first |-> saved(EmptyMemory, Written(r1, s1)),
                         after_second |->
                             saved(Later(saved(EmptyMemory, Written(r1, s1)), gap),
                                   Written(r2, s2))]
    /\ UNCHANGED <<workflow_vars, cache_vars>>

\* a task that asyncio.create_task has started and that has not finished
Running == [running |-> TRUE]

\* process_claim of the agent: the Evidence it returns, or that it raised
agent_task(agent, claim, outcome) ==
    CASE agent = "pro" -> ProAgent_process_claim(claim, outcome)
      [] agent = "contra" -> ContraAgent_process_claim(claim, outcome)
      [] OTHER -> ContextAgent_process_claim(claim, outcome)

\* variant: the wait ends with the first task that finishes
gathered_first_completed(tasks) == \E a \in Agents : tasks[a] # Running

\* await asyncio.gather(pro_task, contra_task, context_task,
\* return_exceptions=True) resumes when the three tasks are done
gathered(tasks) == \A a \in Agents : tasks[a] # Running

\* what research_node takes from a task: nothing from one that raised (or
\* that gave nothing yet)
task_evidence(task) == IF task = Running THEN <<>> ELSE or_empty(task)

\* the body of research_node's loop for one claim, step by step: the three
\* tasks are created together
claim_tasks_start ==
    /\ unit.kind = "idle"
    /\ \E env \in AllEnvs :
        unit' = [kind |-> "claim", phase |-> "gather", env |-> env,
                 tasks |-> [a \in Agents |-> Running],
                 raw_evidence |-> <<>>, finding |-> NoneObject]
    /\ UNCHANGED <<workflow_vars, cache_vars>>

\* one of the tasks finishes: its agent returned or raised
claim_task_done ==
    /\ unit.kind = "claim"
    /\ unit.phase = "gather"
    /\ \E a \in Agents :
        /\ unit.tasks[a] = Running
        /\ unit' = [unit EXCEPT !.tasks[a] =
                        agent_task(a, PoolClaim(1), unit.env.search[a])]
    /\ UNCHANGED <<workflow_vars, cache_vars>>

\* gather returns and research_node builds raw_evidence
claim_gather_returns ==
    /\ unit.kind = "claim"
    /\ unit.phase = "gather"
    /\ gathered(unit.tasks)
    /\ unit' = [unit EXCEPT !.phase = "evaluate",
                            !.raw_evidence = task_evidence(unit.tasks["pro"])
                                             \o task_evidence(unit.tasks["contra"])
                                             \o task_evidence(unit.tasks["context"])]
    /\ UNCHANGED <<workflow_vars, cache_vars>>

\* the evidence is evaluated, the conflicts resolved and the Finding built
claim_evaluate_and_build ==
    /\ unit.kind = "claim"
    /\ unit.phase = "evaluate"
    /\ unit' = [unit EXCEPT !.phase = "done",
                            !.finding = resolve_and_build(PoolClaim(1),
                                            evaluate_all(PoolClaim(1), unit.raw_evidence,
                                                         unit.env.eval),
                                            unit.env.resolve)]
    /\ UNCHANGED <<workflow_vars, cache_vars>>

\* what the Evidence Source has for a query: `available` results, every one
\* with the query as its title
SourceResults(query, available) ==
    [i \in 1..available |->
        SearchResult(AgentResults[i].url, query, AgentResults[i].text)]

\* results the Evidence Source may have for a query
Availabilities == {0, 2, Len(AgentResults)}

\* the default claim of decompose_node, and a claim with two supporting
\* queries and no refuting one
FanoutClaims ==
    {fallback_claim(Hypothesis("h0", None)),
     Claim("claim_2", "h0", "evidence", "refutation",
           <<Fmt("support for ", "h0"), Fmt("", "h0")>>, <<>>)}

\* process_claim of one agent over an Evidence Source that answers every
\* query with its own results
unit_fanout ==
    /\ unit.kind = "idle"
    /\ \E agent \in Agents, claim \in FanoutClaims, available \in Availabilities :
        unit' = [kind |-> "fanout", agent |-> agent, claim |-> claim,
                 available |-> available,
                 returned |->
                     process_claim(agent, claim,
                         [k \in 1..Len(agent_queries(agent, claim)) |->
                             Answer(SourceResults(agent_queries(agent, claim)[k],
                                                  available))],
                         EmptyMemory, [i \in 1..MaxAgentResults |-> PersistOk])]
    /\ UNCHANGED <<workflow_vars, cache_vars>>

UnitNext ==
    \/ unit_evaluate
    \/ unit_research
    \/ unit_verdict
    \/ unit_resolve
    \/ unit_detailed_analysis
    \/ unit_score
    \/ unit_agent
    \/ unit_writes
    \/ unit_fanout
    \/ claim_tasks_start
    \/ claim_task_done
    \/ claim_gather_returns
    \/ claim_evaluate_and_build

UnitSpec == Init /\ [][UnitNext]_vars

(***************************************************************************)
(* The URL cache called over time                                          *)
(***************************************************************************)
\* days the clock runs, and hits counted per entry
MaxDays == 8
MaxHits == 2

CacheUrls == {"https://arxiv.org/abs/123"}
CacheContents == {Text("pro text", 1000), Text("contra text", 200)}
TtlArguments == {NoneObject, Ttl(0), Ttl(1)}

CacheCall(op, url, ttl_days, storage, returned) ==
    [op |-> op, url |-> url, ttl_days |-> ttl_days, storage |-> storage,
     returned |-> returned]

\* URLCache.set(url, content, ttl_days=ttl_days)
cache_set ==
    /\ \E url \in CacheUrls, content \in CacheContents, ttl_days \in TtlArguments,
          storage \in {"ok", "error"} :
        /\ url_cache' = URLCache_set(url_cache, url, content, ttl_days, clock,
                                     storage).table
        /\ cache_call' = CacheCall("set", url, ttl_days, storage,
                                   URLCache_set(url_cache, url, content, ttl_days,
                                                clock, storage).returned)
    /\ UNCHANGED <<clock, workflow_vars, unit>>

\* URLCache.get(url)
cache_get ==
    /\ \E url \in CacheUrls, storage \in {"ok", "error", "update_error"} :
        /\ kept_hit_count(RowOf(url_cache, url)) < MaxHits
        /\ url_cache' = URLCache_get(url_cache, url, clock, storage).table
        /\ cache_call' = CacheCall("get", url, NoneObject, storage,
                                   URLCache_get(url_cache, url, clock, storage).returned)
    /\ UNCHANGED <<clock, workflow_vars, unit>>

\* URLCache.has(url)
cache_has ==
    /\ \E url \in CacheUrls, storage \in {"ok", "error", "update_error"} :
        /\ kept_hit_count(RowOf(url_cache, url)) < MaxHits
        /\ url_cache' = URLCache_has(url_cache, url, clock, storage).table
        /\ cache_call' = CacheCall("has", url, NoneObject, storage,
                                   URLCache_has(url_cache, url, clock, storage).returned)
    /\ UNCHANGED <<clock, workflow_vars, unit>>

\* URLCache.delete(url)
cache_delete ==
    /\ \E url \in CacheUrls, storage \in {"ok", "error"} :
        /\ url_cache' = URLCache_delete(url_cache, url, storage).table
        /\ cache_call' = CacheCall("delete", url, NoneObject, storage,
                                   URLCache_delete(url_cache, url, storage).returned)
    /\ UNCHANGED <<clock, workflow_vars, unit>>

\* time passes between two calls
clock_tick ==
    /\ clock < MaxDays * TICKS_PER_DAY
    /\ clock' = clock + 1
    /\ cache_call' = NoCall
    /\ UNCHANGED <<url_cache, workflow_vars, unit>>

CacheNext ==
    \/ cache_set
    \/ cache_get
    \/ cache_has
    \/ cache_delete
    \/ clock_tick

CacheSpec == Init /\ [][CacheNext]_vars

(***************************************************************************)
(* Properties of the workflow                                              *)
(***************************************************************************)
Count(s, x) == Cardinality({i \in DOMAIN s : s[i] = x})
Last(s) == s[Len(s)]

\* C1: the decision taken after Synthesize is "research" exactly when the
\* confidence of the report is below 60 and fewer than 3 passes are done, and
\* "end" in every other case.  (The decision is compared with the report and
\* the counter it was taken on: they stay as they were until the next
\* Synthesize pass has run.)
C1_ContinueIffLowAndUnderCap ==
    (decision # "none" /\ pc # "check") =>
        /\ decision \in {"research", "end"}
        /\ decision = "research" <=> (report.confidence_score < 60 /\ iterations < 3)

C1_Witness ==
    /\ pc = "research"
    /\ decision = "research"
    /\ iterations = 2
    /\ report.confidence_score = 55

\* C2: the number of Research+Synthesize passes of a run is the smaller of 3
\* and the index of the first report whose confidence is at least 60: every
\* pass but the last one of a finished run reported less than 60, the last
\* one reported at least 60 or was the third, and there is never a fourth.
C2_PassesUntilThresholdOrCap ==
    /\ Len(confidences) <= 3
    /\ Count(trace, "research") <= 3
    /\ \A i \in 1..(Len(confidences) - 1) : confidences[i] < 60
    /\ pc = "end" =>
        /\ Len(confidences) >= 1
        /\ Count(trace, "research") = Len(confidences)
        /\ Count(trace, "synthesize") = Len(confidences)
        /\ Len(confidences) = 3 \/ Last(confidences) >= 60

\* the two runs the specification names: stopped by the threshold at the
\* third pass is the witness; stopped by the cap is C2_WitnessCap
C2_Witness == pc = "end" /\ confidences = <<40, 55, 90>>
C2_WitnessCap == pc = "end" /\ confidences = <<40, 40, 40>>

\* C3: every run reaches the end of the graph: the loop between Research and
\* Synthesize is left after at most 3 passes, and a run that is over, with no
\* node left to run, is at the end of the graph.
C3_RunEndsAtTerminal ==
    /\ Len(trace) <= 2 + 2 * 3
    /\ result.kind # "running" => pc = "end"

\* C4: whenever the termination check runs, the report of the state is set,
\* whether the Synthesizer's oracle call succeeded or failed.
C4_ReportSetAtCheck == pc = "check" => report # NoneObject

C4_Witness == pc = "check" /\ synth_outcome = "error" /\ iterations = 1

\* C5: run_research raises nothing and returns a Report, the one of the last
\* Synthesize pass.
C5_ReturnsLastReport ==
    /\ result.kind # "raised"
    /\ result.kind = "returned" =>
        /\ result.value # NoneObject
        /\ result.value = report
        /\ result.value.confidence_score = Last(confidences)

\* C6: when the Synthesizer's oracle call fails, the report stored is the
\* fallback: verdict ERROR, confidence 0, a non-empty summary and the text of
\* the hypothesis of the state.
C6_FallbackReport ==
    synth_outcome = "error" =>
        /\ report # NoneObject
        /\ report.verdict = "ERROR"
        /\ report.confidence_score = 0
        /\ report.executive_summary # ""
        /\ report.hypothesis = hypothesis.text

C6_Witness ==
    /\ synth_outcome = "error"
    /\ pc = "check"
    /\ hypothesis.text \in RefinedTexts

\* C7: the iteration counter always equals the number of Synthesize passes
\* run so far (0 at the start, one more with every pass, successful or
\* fallback), and no other step changes it.
C7_IterationsCountSynthesize ==
    /\ iterations = Count(trace, "synthesize")
    /\ iterations = Len(confidences)

C7_Witness == iterations = 3 /\ synth_outcome = "error" /\ pc = "end"

\* C8: once Decompose has run, no step changes the claim list, Decompose is
\* not run again, and every Research pass yields the findings of exactly
\* these claims in this order.
C8_ClaimsFrozen ==
    [][pc \notin {"clarify", "decompose"} =>
        /\ claims' = claims
        /\ pc' # "decompose"
        /\ (pc = "research" /\ pc' = "synthesize") =>
              /\ Len(findings') = Len(claims)
              /\ \A i \in 1..Len(claims) : findings'[i].claim = claims[i]]_vars

C8_Witness ==
    /\ pc = "synthesize"
    /\ iterations = 2
    /\ Len(claims) = 2
    /\ Len(findings) = 2
    /\ \A i \in 1..2 : findings[i].claim = claims[i]

\* C9: the nodes run in the order clarify, decompose, then research and
\* synthesize in alternation; what follows a Synthesize pass is a Research
\* pass or the end of the graph.
ExpectedNode(i) ==
    IF i = 1 THEN "clarify"
    ELSE IF i = 2 THEN "decompose"
    ELSE IF i % 2 = 1 THEN "research"
    ELSE "synthesize"

C9_NodeOrder ==
    /\ \A i \in DOMAIN trace : trace[i] = ExpectedNode(i)
    /\ pc = "clarify" => trace = <<>>
    /\ pc = "decompose" => Len(trace) = 1
    /\ pc = "research" => Len(trace) >= 2 /\ Len(trace) % 2 = 0
    /\ pc = "synthesize" => Len(trace) >= 3 /\ Len(trace) % 2 = 1
    /\ pc \in {"check", "end"} => Len(trace) >= 4 /\ Len(trace) % 2 = 0
    /\ pc = "raised" => Len(trace) >= 3 /\ Len(trace) % 2 = 1

C9_Witness ==
    /\ pc = "end"
    /\ trace = <<"clarify", "decompose", "research", "synthesize",
                 "research", "synthesize">>

\* C10: when the Decomposer yields no claim, the claim list is one fallback
\* claim: its text is the text of the hypothesis of the state, its only pro
\* query is that text, and it has two contra queries.  Research is never
\* entered with an empty claim list.
C10_FallbackClaim ==
    /\ pc \notin {"clarify", "decompose"} => claims # <<>>
    /\ decomposed = <<>> =>
        /\ Len(claims) = 1
        /\ claims[1].text = hypothesis.text
        /\ claims[1].search_queries_pro = <<Fmt("", hypothesis.text)>>
        /\ Len(claims[1].search_queries_contra) = 2

C10_Witness ==
    /\ decomposed = <<>>
    /\ pc = "synthesize"
    /\ hypothesis.text \in RefinedTexts
    /\ Len(findings) = 1

\* C11: when the Clarifier reports the hypothesis ambiguous, the hypothesis
\* in the state after Clarify is the one the run was started with.
C11_AmbiguousKeepsOriginal ==
    (pc = "decompose" /\ clarification.result.is_ambiguous) =>
        hypothesis = started_with

\* C12: only Clarify changes the hypothesis of the state, it runs once, and
\* it changes the hypothesis exactly when the Clarifier call succeeded with
\* a refined text: the new hypothesis has that text and the context of the
\* old one.  A failed Clarifier call leaves the hypothesis as it was.
C12_HypothesisReplacedOnce ==
    [][/\ pc # "clarify" => hypothesis' = hypothesis
       /\ Count(trace', "clarify") <= 1
       /\ pc = "clarify" =>
            /\ clarification'.failed => hypothesis' = hypothesis
            /\ hypothesis' # hypothesis =>
                  /\ ~clarification'.failed
                  /\ Truthy(clarification'.result.refined_hypothesis)
            /\ Truthy(clarification'.result.refined_hypothesis) =>
                  /\ hypothesis'.text = clarification'.result.refined_hypothesis
                  /\ hypothesis'.context = hypothesis.context]_vars

C12_Witness ==
    /\ pc = "decompose"
    /\ ~clarification.failed
    /\ hypothesis.text \in RefinedTexts
    /\ hypothesis.text # started_with.text
    /\ hypothesis.context = started_with.context
    /\ hypothesis.context # None

\* C14: after every Research pass, re-runs included, the findings of the
\* state are one Finding per claim, in the order of the claim list, each for
\* its claim: findings of an earlier pass are neither kept nor added to.
C14_OneFindingPerClaim ==
    (pc \in {"synthesize", "check", "end"} \/ (pc = "research" /\ iterations >= 1)) =>
        /\ Len(findings) = Len(claims)
        /\ \A i \in 1..Len(claims) : findings[i].claim = claims[i]

\* a second Research pass over two claims in the order 2, 1
C14_Witness ==
    /\ pc = "synthesize"
    /\ iterations = 1
    /\ Len(claims) = 2
    /\ claims = Reverse(<<PoolClaim(1), PoolClaim(2)>>)
    /\ Len(findings) = 2
    /\ findings[1].claim = PoolClaim(2)
    /\ findings[2].claim = PoolClaim(1)

\* the Evaluator's oracle call succeeded: it answered, and with an Evidence
\* that validates
EvaluatorSucceeded ==
    /\ unit.raw # Failed
    /\ unit.raw.value.confidence_score \in 0..100
    /\ unit.raw.value.source_reliability_score \in 0..100

\* C18: when the Evaluator's oracle call succeeds, the Evidence returned has
\* the url, the title and the source_reliability_score of the input
\* Evidence, whatever the oracle put in these fields.
C18_MetadataForcedBack ==
    (unit.kind = "evaluate" /\ EvaluatorSucceeded) =>
        /\ unit.returned.url = unit.evidence.url
        /\ unit.returned.title = unit.evidence.title
        /\ unit.returned.source_reliability_score =
               unit.evidence.source_reliability_score

C18_Witness ==
    /\ unit.kind = "evaluate"
    /\ EvaluatorSucceeded
    /\ unit.raw.value.url # unit.evidence.url
    /\ unit.raw.value.title # unit.evidence.title
    /\ unit.raw.value.source_reliability_score # unit.evidence.source_reliability_score
    /\ unit.returned.supports_claim # unit.evidence.supports_claim
    /\ unit.returned.url = unit.evidence.url

\* C19: for every answer of the oracle, the Evidence the Evaluator returns
\* has the url, title, content and source_reliability_score of the input.
C19_OnlyJudgementFieldsChange ==
    unit.kind = "evaluate" =>
        /\ unit.returned.url = unit.evidence.url
        /\ unit.returned.title = unit.evidence.title
        /\ unit.returned.content = unit.evidence.content
        /\ unit.returned.source_reliability_score =
               unit.evidence.source_reliability_score

\* C20: when the Evaluator's oracle call fails, or answers an Evidence that
\* does not validate, the Evaluator returns the input Evidence as it is.
C20_FailedEvaluationKeepsInput ==
    (unit.kind = "evaluate" /\ ~EvaluatorSucceeded) =>
        unit.returned = unit.evidence

C20_Witness ==
    /\ unit.kind = "evaluate"
    /\ unit.raw # Failed
    /\ unit.raw.value.confidence_score = 150
    /\ unit.raw.value.supports_claim # unit.evidence.supports_claim
    /\ unit.returned = unit.evidence

\* how many searches an agent makes for a claim, each answered by one result
QueriesOf(agent, claim) ==
    CASE agent = "pro" -> Len(claim.search_queries_pro)
      [] agent = "contra" -> Len(claim.search_queries_contra)
      [] OTHER -> 1

\* the agent ends without evidence: its search failed, or it raised on a
\* result without text
AgentFails(agent, env) == env.search[agent] # Answer(<<ResultOf(agent)>>)

\* evidence of a list that comes from the results of an agent
FromAgent(evidence, agent) ==
    Cardinality({j \in DOMAIN evidence : evidence[j].url = ResultOf(agent).url})

\* C13: whatever subset of the three agents fails for a claim, the claim gets
\* a Finding in which each failing agent has no evidence and each other
\* agent has one item per search it made; this depends on the answers for
\* that claim only, not on what happens for the other claims of the pass.
C13_AgentFailuresIsolated ==
    unit.kind = "research" =>
        /\ Len(unit.findings) = Len(unit.claims)
        /\ \A i \in 1..Len(unit.claims) :
            /\ unit.findings[i].claim = unit.claims[i]
            /\ \A a \in Agents :
                 FromAgent(unit.findings[i].evidence, a) =
                     IF AgentFails(a, unit.envs[i]) THEN 0
                     ELSE QueriesOf(a, unit.claims[i])
            /\ Len(unit.findings[i].evidence) =
                 FromAgent(unit.findings[i].evidence, "pro")
                 + FromAgent(unit.findings[i].evidence, "contra")
                 + FromAgent(unit.findings[i].evidence, "context")

\* the Pro agent raises for the first claim, whose two other agents answer;
\* every call for the second claim fails
C13_Witness ==
    /\ unit.kind = "research"
    /\ Len(unit.claims) = 2
    /\ unit.envs[1].search["pro"] = Answer(<<MalformedResult>>)
    /\ ~AgentFails("contra", unit.envs[1])
    /\ ~AgentFails("context", unit.envs[1])
    /\ Len(unit.findings[1].evidence) = 2
    /\ unit.envs[2] = AllFailedEnv
    /\ unit.findings[2].evidence = <<>>

\* the Evidence the agents of a claim return, in the order Pro, Contra,
\* Context, before evaluation
RawEvidence(claim, env) ==
    or_empty(ProAgent_process_claim(claim, env.search["pro"]))
    \o or_empty(ContraAgent_process_claim(claim, env.search["contra"]))
    \o or_empty(ContextAgent_process_claim(claim, env.search["context"]))

\* C15: the evidence of a Finding has one entry for every Evidence the
\* agents of the claim returned, in the order Pro, Contra, Context; an entry
\* whose evaluation failed is the item the agent returned.
C15_NoEvidenceDropped ==
    unit.kind = "research" =>
        \A i \in 1..Len(unit.claims) :
            /\ Len(unit.findings[i].evidence) =
                   Len(RawEvidence(unit.claims[i], unit.envs[i]))
            /\ \A j \in 1..Len(unit.findings[i].evidence) :
                 /\ unit.findings[i].evidence[j].url =
                        RawEvidence(unit.claims[i], unit.envs[i])[j].url
                 /\ unit.envs[i].eval = "error" =>
                        unit.findings[i].evidence[j] =
                            RawEvidence(unit.claims[i], unit.envs[i])[j]

\* the default claim (one pro query, two contra queries), every search
\* answered and every evaluation failing
C15_Witness ==
    /\ unit.kind = "research"
    /\ Len(unit.claims) = 1
    /\ unit.envs[1].eval = "error"
    /\ \A a \in Agents : ~AgentFails(a, unit.envs[1])
    /\ Len(unit.findings[1].evidence) = 4
    /\ unit.findings[1].evidence[1].url = ResultOf("pro").url
    /\ unit.findings[1].evidence[2].url = ResultOf("contra").url
    /\ unit.findings[1].evidence[3].url = ResultOf("contra").url
    /\ unit.findings[1].evidence[4].url = ResultOf("context").url

\* the verdict for s supporting items out of n, by the ratio s/n
VerdictByRatio(s, n) ==
    IF s * 10 >= 7 * n THEN "VALID"
    ELSE IF s * 10 >= 4 * n THEN "PARTIALLY_VALID"
    ELSE IF s * 10 >= 2 * n THEN "INCONCLUSIVE"
    ELSE "REFUTED"

Supporting(evidence) ==
    Cardinality({j \in DOMAIN evidence : evidence[j].supports_claim})

\* C16: the verdict is VALID for a support ratio of at least 0.7, else
\* PARTIALLY_VALID for at least 0.4, else INCONCLUSIVE for at least 0.2, else
\* REFUTED (7 of 10 is VALID, 2 of 5 PARTIALLY_VALID, 1 of 5 INCONCLUSIVE),
\* and the verdict of a Finding with evidence is the one of its counts.
C16_VerdictByRatio ==
    /\ unit.kind = "verdict" =>
        /\ unit.verdict = VerdictByRatio(unit.supporting, unit.total)
        /\ (unit.supporting = 7 /\ unit.total = 10) => unit.verdict = "VALID"
        /\ (unit.supporting = 2 /\ unit.total = 5) => unit.verdict = "PARTIALLY_VALID"
        /\ (unit.supporting = 1 /\ unit.total = 5) => unit.verdict = "INCONCLUSIVE"
        /\ (unit.supporting = 6 /\ unit.total = 10) => unit.verdict = "PARTIALLY_VALID"
        /\ (unit.supporting = 1 /\ unit.total = 10) => unit.verdict = "REFUTED"
    /\ unit.kind = "research" =>
        \A i \in 1..Len(unit.claims) :
            unit.findings[i].evidence # <<>> =>
                unit.findings[i].verdict =
                    VerdictByRatio(Supporting(unit.findings[i].evidence),
                                   Len(unit.findings[i].evidence))

C16_Witness ==
    /\ unit.kind = "verdict"
    /\ unit.supporting = 7
    /\ unit.total = 10
    /\ unit.verdict = "VALID"

\* C17: the confidence of a Finding is the mean of the confidence_score of
\* its evidence; a Finding without evidence has confidence 0 and verdict
\* INCONCLUSIVE.
C17_ConfidenceIsMean ==
    unit.kind = "research" =>
        \A i \in 1..Len(unit.claims) :
            IF unit.findings[i].evidence = <<>>
            THEN /\ unit.findings[i].confidence_score.num = 0
                 /\ unit.findings[i].verdict = "INCONCLUSIVE"
            ELSE /\ unit.findings[i].confidence_score.den > 0
                 /\ unit.findings[i].confidence_score.num
                        * Len(unit.findings[i].evidence)
                    = SumOf(unit.findings[i].evidence, "confidence_score")
                        * unit.findings[i].confidence_score.den

\* a Finding over items of different confidence, and one without evidence
C17_Witness ==
    /\ unit.kind = "research"
    /\ Len(unit.claims) = 2
    /\ Len(unit.findings[1].evidence) = 3
    /\ unit.findings[1].evidence[1].confidence_score
           # unit.findings[1].evidence[2].confidence_score
    /\ unit.findings[1].confidence_score.num
           = unit.findings[1].evidence[1].confidence_score
             + unit.findings[1].evidence[2].confidence_score
             + unit.findings[1].evidence[3].confidence_score
    /\ unit.findings[1].confidence_score.den = 3
    /\ unit.findings[2].evidence = <<>>
    /\ unit.findings[2].verdict = "INCONCLUSIVE"

(***************************************************************************)
(* Properties of the Conflict Resolver                                     *)
(***************************************************************************)
AllSupport(evidence_list) ==
    evidence_list # <<>> /\ \A i \in DOMAIN evidence_list : evidence_list[i].supports_claim
AllRefute(evidence_list) ==
    evidence_list # <<>> /\ \A i \in DOMAIN evidence_list : ~evidence_list[i].supports_claim
Mixed(evidence_list) ==
    /\ \E i \in DOMAIN evidence_list : evidence_list[i].supports_claim
    /\ \E i \in DOMAIN evidence_list : ~evidence_list[i].supports_claim

\* C21: detailed_analysis of a non-empty evidence list of one polarity
\* returns has_conflicts = false, winning_position "support" when every item
\* supports and "refute" when every item refutes, and a confidence of
\* min(80, count * 20); of an empty list it returns has_conflicts = false,
\* confidence 0 and the no-evidence message.
C21_OneSidedAnalysis ==
    unit.kind = "detailed_analysis" =>
        /\ unit.evidence_list = <<>> =>
            /\ unit.returned.has_conflicts = FALSE
            /\ unit.returned.confidence_in_resolution = 0
            /\ unit.returned.resolution = [kind |-> "no_evidence"]
        /\ AllSupport(unit.evidence_list) =>
            /\ unit.returned.has_conflicts = FALSE
            /\ unit.returned.winning_position = "support"
            /\ unit.returned.confidence_in_resolution
                   = Min(80, Len(unit.evidence_list) * 20)
        /\ AllRefute(unit.evidence_list) =>
            /\ unit.returned.has_conflicts = FALSE
            /\ unit.returned.winning_position = "refute"
            /\ unit.returned.confidence_in_resolution
                   = Min(80, Len(unit.evidence_list) * 20)

\* five supporting items: the confidence is capped at 80
C21_Witness ==
    /\ unit.kind = "detailed_analysis"
    /\ Len(unit.evidence_list) = 5
    /\ AllSupport(unit.evidence_list)
    /\ unit.returned.winning_position = "support"
    /\ unit.returned.confidence_in_resolution = 80

\* C22: resolve and detailed_analysis call the Reasoning Oracle exactly when
\* the evidence has both a supporting and a refuting item; for empty or
\* one-sided evidence the result is the local one whatever the oracle would
\* answer, and for mixed evidence a failing oracle gives the rule-based
\* resolution.
C22_OracleOnlyForMixed ==
    /\ unit.kind = "resolve" =>
        /\ unit.oracle_calls = IF Mixed(unit.evidence_list) THEN 1 ELSE 0
        /\ ~Mixed(unit.evidence_list) =>
               unit.returned.kind \in {"no_evidence", "no_conflict"}
        /\ (Mixed(unit.evidence_list) /\ unit.outcome # Failed) =>
               unit.returned = [kind |-> "oracle", content |-> unit.outcome.value]
        /\ (Mixed(unit.evidence_list) /\ unit.outcome = Failed) =>
               unit.returned =
                   rule_based_resolution(PoolClaim(1), SelectSupporting(unit.evidence_list),
                                         SelectRefuting(unit.evidence_list))
    /\ unit.kind = "detailed_analysis" =>
        /\ unit.oracle_calls = IF Mixed(unit.evidence_list) THEN 1 ELSE 0
        /\ ~Mixed(unit.evidence_list) =>
               /\ unit.returned.has_conflicts = FALSE
               /\ unit.returned.resolution.kind \in {"no_evidence", "all_one_direction"}
        /\ (Mixed(unit.evidence_list) /\ unit.raw # Failed
                /\ unit.raw.value.confidence_in_resolution \in 0..100) =>
               unit.returned = unit.raw.value
        /\ (Mixed(unit.evidence_list) /\ unit.raw = Failed) =>
               /\ unit.returned.has_conflicts = TRUE
               /\ unit.returned.resolution =
                      rule_based_resolution(PoolClaim(1),
                                            SelectSupporting(unit.evidence_list),
                                            SelectRefuting(unit.evidence_list))

\* one-sided evidence with an oracle that would have answered, left unasked
C22_Witness ==
    /\ unit.kind = "resolve"
    /\ AllSupport(unit.evidence_list)
    /\ unit.outcome # Failed
    /\ unit.oracle_calls = 0
    /\ unit.returned.kind = "no_conflict"

\* mixed evidence with a failing oracle, resolved by the rule
C22_WitnessFallback ==
    /\ unit.kind = "resolve"
    /\ Mixed(unit.evidence_list)
    /\ unit.outcome = Failed
    /\ unit.oracle_calls = 1
    /\ unit.returned.kind = "supporting_stronger"

\* C23: with mixed evidence and the oracle unavailable, the supporting side
\* is declared stronger exactly when the mean reliability of the supporting
\* items exceeds the mean of the refuting items by more than 10, the
\* refuting side exactly when its mean exceeds the other by more than 10,
\* and the conflict is unresolved otherwise, a difference of exactly 10
\* included.
C23_RuleByMeans ==
    (unit.kind = "resolve" /\ Mixed(unit.evidence_list) /\ unit.outcome = Failed) =>
        unit.returned =
            compare_exact_means(
                SumOf(SelectSupporting(unit.evidence_list), "source_reliability_score"),
                Len(SelectSupporting(unit.evidence_list)),
                SumOf(SelectRefuting(unit.evidence_list), "source_reliability_score"),
                Len(SelectRefuting(unit.evidence_list)))

(***************************************************************************)
(* Properties of the Source Reliability Scorer                             *)
(***************************************************************************)
\* C24: every score the scorer returns is between 0 and 100: score_url for
\* every URL, known, unknown or malformed, and score_with_modifiers for
\* every URL and every combination of the seven flags.
C24_ScoresInRange ==
    /\ \A url \in ModelUrls : score_url(url) >= 0 /\ score_url(url) <= 100
    /\ unit.kind = "score" =>
        /\ unit.first >= 0 /\ unit.first <= 100
        /\ unit.second >= 0 /\ unit.second <= 100

\* the three penalties on a source of base score 25: the sum is -20
C24_Witness ==
    /\ unit.kind = "score"
    /\ unit.call.method = "score_with_modifiers"
    /\ unit.call.url = "https://reddit.com/r/x"
    /\ unit.call.flags = [m \in DOMAIN MODIFIERS |->
            m \in {"conflict_of_interest", "contradicts_consensus", "unverified_claims"}]
    /\ unit.first = 0

\* the entries of a table that a domain matches
ExactHits(domain) == {i \in 1..Len(DOMAIN_SCORES) : domain = DOMAIN_SCORES[i][1]}
SuffixHits(domain) ==
    {i \in 1..Len(DOMAIN_SCORES) : EndsWith(domain, DOMAIN_SCORES[i][1])}
TldHits(domain) == {i \in 1..Len(TLD_SCORES) : EndsWith(domain, TLD_SCORES[i][1])}

C25_WitnessExact ==
    /\ unit.kind = "score"
    /\ unit.call.method = "score_url"
    /\ unit.call.url = "https://pubmed.ncbi.nlm.nih.gov/1"
    /\ Cardinality(SuffixHits(get_domain(unit.call.url))) > 1
    /\ unit.first = 92

\* the sum of the deltas of the flags that are set
DeltaSum(flags) ==
    (IF flags["has_citations"] THEN 10 ELSE 0)
    + (IF flags["is_recent"] THEN 5 ELSE 0)
    + (IF flags["is_primary"] THEN 15 ELSE 0)
    + (IF flags["peer_reviewed"] THEN 12 ELSE 0)
    + (IF flags["conflict_of_interest"] THEN -20 ELSE 0)
    + (IF flags["contradicts_consensus"] THEN -15 ELSE 0)
    + (IF flags["unverified_claims"] THEN -10 ELSE 0)

Only(name) == [m \in DOMAIN MODIFIERS |-> m = name]

\* C26: score_with_modifiers returns score_url(url) plus the deltas of the
\* flags that are set (citations +10, recent +5, primary +15, peer-reviewed
\* +12, conflict of interest -20, contradicts consensus -15, unverified
\* claims -10), brought to 0 when the sum is below 0 and to 100 when it is
\* above 100: base 60 with is_primary gives 75, base 95 with
\* conflict_of_interest gives 75.
C26_ModifiersClamped ==
    (unit.kind = "score" /\ unit.call.method = "score_with_modifiers") =>
        /\ unit.first =
               IF score_url(unit.call.url) + DeltaSum(unit.call.flags) < 0 THEN 0
               ELSE IF score_url(unit.call.url) + DeltaSum(unit.call.flags) > 100 THEN 100
               ELSE score_url(unit.call.url) + DeltaSum(unit.call.flags)
        /\ (score_url(unit.call.url) = 60 /\ unit.call.flags = Only("is_primary")) =>
               unit.first = 75
        /\ (score_url(unit.call.url) = 95
                /\ unit.call.flags = Only("conflict_of_interest")) =>
               unit.first = 75

\* base 95 with a conflict of interest
C26_Witness ==
    /\ unit.kind = "score"
    /\ unit.call.method = "score_with_modifiers"
    /\ score_url(unit.call.url) = 95
    /\ unit.call.flags = Only("conflict_of_interest")
    /\ unit.first = 75

\* base 60 with is_primary, and a sum above 100
C26_WitnessPrimary ==
    /\ unit.kind = "score"
    /\ unit.call.method = "score_with_modifiers"
    /\ score_url(unit.call.url) = 60
    /\ unit.call.flags = Only("is_primary")
    /\ unit.first = 75

C26_WitnessAbove ==
    /\ unit.kind = "score"
    /\ unit.call.method = "score_with_modifiers"
    /\ score_url(unit.call.url) + DeltaSum(unit.call.flags) > 100
    /\ unit.first = 100

CacheContentsOf(memory) == [url \in DOMAIN memory.cache |-> memory.cache[url].content]

\* the url and the document the index holds by id
IndexDataOf(memory) ==
    [id \in DOMAIN memory.index |->
        [url |-> memory.index[id].metadata.url, document |-> memory.index[id].document]]

\* C31: writes to the cache and to the index are idempotent and
\* last-write-wins: writing the same url and content again leaves the url
\* and content the stores hold as after the first write, and after two
\* writes to the same key the store holds one entry for the key, with the
\* url and content of the later write.
C31_IdempotentLastWriteWins ==
    unit.kind = "writes" =>
        /\ (unit.first.url = unit.second.url /\ unit.first.content = unit.second.content) =>
               /\ CacheContentsOf(unit.after_second) = CacheContentsOf(unit.after_first)
               /\ IndexDataOf(unit.after_second) = IndexDataOf(unit.after_first)
        /\ unit.first.url = unit.second.url =>
               /\ DOMAIN unit.after_second.cache = {unit.second.url}
               /\ unit.after_second.cache[unit.second.url].content = unit.second.content
        /\ unit.first.content = unit.second.content =>
               /\ DOMAIN unit.after_second.index = {DocumentId(unit.second.content)}
               /\ IndexDataOf(unit.after_second)[DocumentId(unit.second.content)]
                      = [url |-> unit.second.url, document |-> unit.second.content]

\* a score of the engine is in range
InRange(score) == 0 <= score /\ score <= 100

\* C32: in every reachable state the scores the engine holds are within
\* 0..100: the reliability and the confidence of every Evidence, the
\* confidence of every Finding, and the confidence of the Report, the one
\* the Synthesizer oracle supplied included.
C32_StateScoresInRange ==
    /\ \A i \in DOMAIN findings :
           /\ 0 <= findings[i].confidence_score.num
           /\ findings[i].confidence_score.num <= 100 * findings[i].confidence_score.den
           /\ \A j \in DOMAIN findings[i].evidence :
                  /\ InRange(findings[i].evidence[j].source_reliability_score)
                  /\ InRange(findings[i].evidence[j].confidence_score)
    /\ report # NoneObject => InRange(report.confidence_score)

\* the list holds one Finding for every claim of the state, in claim order
Whole(fs, cs) == Len(fs) = Len(cs) /\ \A i \in DOMAIN fs : fs[i].claim = cs[i]

C34_EvaluationAfterAllAgents ==
    unit.kind = "claim" =>
        /\ DOMAIN unit.tasks = Agents
        /\ unit.phase # "gather" =>
               /\ \A a \in Agents : unit.tasks[a] # Running
               /\ unit.raw_evidence
                      = or_empty(agent_task("pro", PoolClaim(1), unit.env.search["pro"]))
                        \o or_empty(agent_task("contra", PoolClaim(1),
                                                unit.env.search["contra"]))
                        \o or_empty(agent_task("context", PoolClaim(1),
                                                unit.env.search["context"]))
        /\ unit.phase = "done" => unit.finding = claim_finding(PoolClaim(1), unit.env)

\* one agent raised, the two others returned, and the Finding is built on
\* the evidence of these two
C34_Witness ==
    /\ unit.kind = "claim"
    /\ unit.phase = "done"
    /\ unit.tasks["contra"].raised
    /\ Len(unit.raw_evidence) = 2
    /\ Len(unit.finding.evidence) = 2

\* what an Evidence tells of the search it comes from
Tag(query, url, supports, contextual) ==
    [query |-> query, url |-> url, supports |-> supports, contextual |-> contextual]
TagsOf(evidence_list) ==
    [i \in DOMAIN evidence_list |->
        Tag(evidence_list[i].title, evidence_list[i].url, evidence_list[i].supports_claim,
            evidence_list[i].explanation = CONTEXTUAL_INFORMATION)]

\* the first results of every query, in query order
ExpectedTags(queries, num_results, available, supports, contextual) ==
    Flatten([k \in DOMAIN queries |->
                [i \in 1..Min(num_results, available) |->
                    Tag(queries[k], AgentResults[i].url, supports, contextual)]])

\* C35: the Pro agent issues every query of search_queries_pro and no
\* other, each for 3 results, tagged supports_claim = true; the Contra
\* agent does so with search_queries_contra, tagged false; the Context agent
\* issues the one query "background info <claim text>" for 2 results, tagged
\* true with the contextual explanation.  Each agent returns one Evidence
\* per result, in query order.
C35_AgentFanout ==
    unit.kind = "fanout" =>
        /\ ~unit.returned.raised
        /\ TagsOf(unit.returned.value) =
               CASE unit.agent = "pro" ->
                      ExpectedTags(unit.claim.search_queries_pro, 3, unit.available,
                                   TRUE, FALSE)
                 [] unit.agent = "contra" ->
                      ExpectedTags(unit.claim.search_queries_contra, 3, unit.available,
                                   FALSE, FALSE)
                 [] OTHER ->
                      ExpectedTags(<<Fmt("background info ", unit.claim.text)>>, 2,
                                   unit.available, TRUE, TRUE)

\* the Contra agent returned six Evidence for the two refuting queries of
\* the default claim
C35_Witness ==
    /\ unit.kind = "fanout"
    /\ unit.agent = "contra"
    /\ Len(unit.claim.search_queries_contra) = 2
    /\ unit.available = 4
    /\ Len(unit.returned.value) = 6
    /\ unit.returned.value[4].title = unit.claim.search_queries_contra[2]
    /\ ~unit.returned.value[4].supports_claim

\* the Context agent returned two Evidence of its one query
C35_WitnessContext ==
    /\ unit.kind = "fanout"
    /\ unit.agent = "context"
    /\ unit.available = 4
    /\ Len(unit.returned.value) = 2
    /\ unit.returned.value[1].explanation = CONTEXTUAL_INFORMATION

\* the result of the Evidence Source with the given URL
ResultAt(url) == AgentResults[CHOOSE i \in DOMAIN AgentResults : AgentResults[i].url = url]

\* C36: every Evidence an agent makes of a search result has the url and the
\* title of the result, source_reliability_score = score_url(url), the
\* same value as confidence_score, and as content the first 1000 characters
\* of the text of the result, the whole text when it is shorter.
C36_EvidenceOfResult ==
    unit.kind = "fanout" =>
        \A j \in DOMAIN unit.returned.value :
            /\ unit.returned.value[j].url \in {AgentResults[i].url : i \in DOMAIN AgentResults}
            /\ unit.returned.value[j].title \in
                   {q : q \in {unit.claim.search_queries_pro[k] :
                                   k \in DOMAIN unit.claim.search_queries_pro}
                              \cup {unit.claim.search_queries_contra[k] :
                                       k \in DOMAIN unit.claim.search_queries_contra}
                              \cup {Fmt("background info ", unit.claim.text)}}
            /\ unit.returned.value[j].source_reliability_score
                   = score_url(unit.returned.value[j].url)
            /\ unit.returned.value[j].confidence_score
                   = score_url(unit.returned.value[j].url)
            /\ unit.returned.value[j].content.id
                   = ResultAt(unit.returned.value[j].url).text.id
            /\ unit.returned.value[j].content.len
                   = IF ResultAt(unit.returned.value[j].url).text.len < 1000
                     THEN ResultAt(unit.returned.value[j].url).text.len
                     ELSE 1000

\* a result of arxiv.org with a text of 1500 characters became an Evidence
\* of 1000 characters with both scores 92, and one with a text of 200
\* characters kept its text
C36_Witness ==
    /\ unit.kind = "fanout"
    /\ Len(unit.returned.value) >= 2
    /\ unit.returned.value[1].url = "https://arxiv.org/abs/123"
    /\ ResultAt(unit.returned.value[1].url).text.len = 1500
    /\ unit.returned.value[1].content.len = 1000
    /\ unit.returned.value[1].source_reliability_score = 92
    /\ unit.returned.value[1].confidence_score = 92
    /\ unit.returned.value[2].content.len = 200

\* the entries of the domain table that a domain is a subdomain of
SubdomainHits(domain) ==
    {i \in 1..Len(DOMAIN_SCORES) : EndsWith(domain, <<".">> \o DOMAIN_SCORES[i][1])}

\* C37: the suffix step of score_url matches a host with an entry of the
\* domain table only when the host is a subdomain of the entry: a host that
\* is no entry of the table, no subdomain of one, and ends with no suffix
\* of the TLD table scores 50.
C37_SuffixIsSubdomain ==
    (/\ unit.kind = "score"
     /\ unit.call.method = "score_url"
     /\ get_domain(unit.call.url) # <<>>
     /\ ExactHits(get_domain(unit.call.url)) = {}
     /\ SubdomainHits(get_domain(unit.call.url)) = {}
     /\ TldHits(get_domain(unit.call.url)) = {}) =>
        unit.first = 50

\* C38: when Synthesize stores the ERROR fallback Report after a failure of
\* the oracle, the findings of that Report are the findings of the Research
\* pass of the same iteration.
C38_FallbackKeepsFindings ==
    (pc = "check" /\ synth_outcome = "error") =>
        /\ report.verdict = "ERROR"
        /\ report.findings = findings

\* C39: a failure of the Synthesizer oracle is handled like a Report of low
\* confidence: when the Synthesizer failed on every pass (every Report had
\* confidence 0, which in the model only the fallback has), the run ends
\* after exactly 3 Research and 3 Synthesize passes, with the ERROR Report.
C39_FailuresUseAllPasses ==
    (/\ pc = "end"
     /\ synth_outcome = "error"
     /\ \A i \in DOMAIN confidences : confidences[i] = 0) =>
        /\ iterations = 3
        /\ Count(trace, "research") = 3
        /\ Count(trace, "synthesize") = 3
        /\ report.verdict = "ERROR"
        /\ report.confidence_score = 0
        /\ result.kind = "returned" => result.value = report

\* the run returned the ERROR Report after three failed passes
C39_Witness ==
    /\ pc = "end"
    /\ result.kind = "returned"
    /\ result.value.verdict = "ERROR"
    /\ confidences = <<0, 0, 0>>
    /\ Count(trace, "research") = 3

\* the places of a list of Evidence that hold what the Context agent found
ContextItems(evidence) ==
    {j \in DOMAIN evidence : evidence[j].url = ResultOf("context").url}

\* C40: the evidence of the Context agent goes the way of all evidence: it
\* is evaluated, it counts in the mean confidence of the Finding and in the
\* support ratio; when its evaluation fails it keeps supports_claim = true
\* and its reliability score as confidence, and so counts as supporting.
C40_ContextEvidenceCounts ==
    (/\ unit.kind = "claim"
     /\ unit.phase = "done"
     /\ ~unit.tasks["context"].raised
     /\ unit.tasks["context"].value # <<>>) =>
        /\ ContextItems(unit.finding.evidence) = {Len(unit.finding.evidence)}
        /\ unit.finding.confidence_score
               = [num |-> SumOf(unit.finding.evidence, "confidence_score"),
                  den |-> Len(unit.finding.evidence)]
        /\ unit.finding.verdict
               = VerdictByRatio(Supporting(unit.finding.evidence),
                                Len(unit.finding.evidence))
        /\ unit.env.eval # "error" =>
               Last(unit.finding.evidence).explanation = [kind |-> "oracle"]
        /\ unit.env.eval = "error" =>
               /\ Last(unit.finding.evidence).supports_claim
               /\ Last(unit.finding.evidence).explanation = CONTEXTUAL_INFORMATION
               /\ Last(unit.finding.evidence).confidence_score
                      = score_url(ResultOf("context").url)
               /\ Supporting(unit.finding.evidence)
                      = 1 + Supporting(SubSeq(unit.finding.evidence, 1,
                                              Len(unit.finding.evidence) - 1))

\* the Evaluator failed; one refuting Evidence and the Evidence of the
\* Context agent make a support ratio of 1/2 and the verdict PARTIALLY_VALID
C40_Witness ==
    /\ unit.kind = "claim"
    /\ unit.phase = "done"
    /\ unit.env.eval = "error"
    /\ Len(unit.finding.evidence) = 2
    /\ ~unit.finding.evidence[1].supports_claim
    /\ ContextItems(unit.finding.evidence) = {2}
    /\ unit.finding.verdict = "PARTIALLY_VALID"

\* the URLs of a list of results or of evidence, in order
Urls(items) == [i \in DOMAIN items |-> items[i].url]

\* what one query contributes: nothing when its search failed, its first
\* results otherwise
Contribution(outcome, num_results) ==
    IF outcome = Failed THEN <<>> ELSE Urls(Take(outcome.value, num_results))

\* C28: a search that fails is a search with no results: search returns the
\* empty list, the failed query contributes no evidence, the other queries
\* of the agent still contribute theirs, and the agent does not raise.
C28_FailedSearchIsEmpty ==
    unit.kind = "agent" =>
        /\ ~unit.returned.raised
        /\ \A k \in DOMAIN unit.outcomes :
               unit.outcomes[k] = Failed =>
                   search("q", agent_num_results(unit.agent), unit.outcomes[k]) = <<>>
        /\ Urls(unit.returned.value)
               = Flatten([k \in DOMAIN unit.outcomes |->
                             Contribution(unit.outcomes[k],
                                          agent_num_results(unit.agent))])

\* the first query of the contra agent failed and the second one still gave
\* its three results
C28_Witness ==
    /\ unit.kind = "agent"
    /\ unit.agent = "contra"
    /\ unit.outcomes[1] = Failed
    /\ unit.outcomes[2] = Answer(AgentResults)
    /\ Urls(unit.returned.value) = Urls(Take(AgentResults, CONTRA_NUM_RESULTS))

\* C29: when saving a result fails (URL cache, vector index, or both), the
\* agent does not raise and returns the evidence it returns when every save
\* succeeds, the results after the failed one included.
C29_PersistenceFailureKeepsEvidence ==
    unit.kind = "agent" =>
        /\ ~unit.returned.raised
        /\ unit.returned.value
               = process_claim(unit.agent, fallback_claim(Hypothesis("h0", None)),
                               unit.outcomes, EmptyMemory,
                               [i \in 1..MaxAgentResults |-> PersistOk]).value

\* the save of the first result failed in the cache and in the index: the
\* result is not in the cache, the next one is, and both are returned
C29_Witness ==
    /\ unit.kind = "agent"
    /\ unit.persists[1] = Persist("error", "ok", "error")
    /\ Len(unit.returned.value) >= 2
    /\ unit.returned.value[1].url \notin DOMAIN unit.returned.memory.cache
    /\ unit.returned.value[2].url \in DOMAIN unit.returned.memory.cache
    /\ DocumentId(unit.returned.value[1].content) \notin DOMAIN unit.returned.memory.index
    /\ DocumentId(unit.returned.value[2].content) \in DOMAIN unit.returned.memory.index

\* the instant a timestamp stands for, in ticks
Instant(ts) == ts.date * TICKS_PER_DAY + ts.time

\* the entry exists and its expiry, if it has one, is still to come
Live(row, now) ==
    /\ row # NoRow
    /\ row.expires_at = NULL \/ now < Instant(row.expires_at)

\* C30: an entry written by set without ttl expires 7 days after the write
\* and one written with ttl 0 never expires; get returns the content, and
\* has returns true, exactly for an entry that exists and has not expired,
\* and None or false otherwise, after a delete or a storage failure too.
C30_CacheExpiry ==
    /\ (cache_call.op = "set" /\ cache_call.returned) =>
        /\ cache_call.ttl_days = NoneObject =>
               /\ url_cache[cache_call.url].expires_at # NULL
               /\ Instant(url_cache[cache_call.url].expires_at)
                      = clock + 7 * TICKS_PER_DAY
        /\ cache_call.ttl_days = Ttl(0) =>
               url_cache[cache_call.url].expires_at = NULL
    /\ cache_call.op = "get" =>
        cache_call.returned =
            IF cache_call.storage = "ok" /\ Live(RowOf(url_cache, cache_call.url), clock)
            THEN url_cache[cache_call.url].content
            ELSE NoneObject
    /\ cache_call.op = "has" =>
        cache_call.returned =
            (cache_call.storage = "ok" /\ Live(RowOf(url_cache, cache_call.url), clock))

====
